---- MODULE Spec2Model ----
(***************************************************************************)
(* ActingDoll control plane: the session registry, security gate and       *)
(* command router of CubismControllerHandler                               *)
(* (src/src/adapter/server/handler_cubism_controller.py), the security     *)
(* policy of SecurityConfig (src/src/adapter/server/security_config.py)    *)
(* and the tool bridge MCPHandler (src/src/adapter/server/handler_mcp.py). *)
(*                                                                         *)
(* Scheduling is single-threaded and cooperative: one action is one        *)
(* handler step between two reads of a session's socket.  A send to a      *)
(* session whose transport is no longer open raises ConnectionClosed.      *)
(*                                                                         *)
(* A Python string is modelled by the sequence of its whitespace-separated *)
(* words; str.split, maxsplit and int() are operators on such sequences.   *)
(***************************************************************************)
EXTENDS Integers, Sequences, FiniteSets, TLC

----------------------------------------------------------------------------
(* Bounds of the model                                                     *)

\* generic client connections are 1..NumConns; connection 0 is the bridge's
NumConns == 2
\* messages that may wait unread on the bridge's upstream session
MaxInbox == 2
\* tool invocations the bridge makes
MaxCalls == 2

BridgeWs == 0
Clients == 1..NumConns
Conns == 0..NumConns
NoConn == -1

\* the peer address "{ip}:{port}" of each connection; NoAddr is an
\* unavailable remote_address
PeerAddr(ws) == "p" \o ToString(ws)
Addrs == {PeerAddr(ws) : ws \in Conns}
NoAddr == ""
Ids == Addrs \cup {"unknown"}

----------------------------------------------------------------------------
(* JSON values of an envelope field: null, a string (its words) or an      *)
(* object (its keys and values, flattened)                                 *)

JNone == [k |-> "none", v |-> <<>>]
JStr(words) == [k |-> "str", v |-> words]
JDict(kv) == [k |-> "dict", v |-> kv]

\* Python truthiness of a JSON value: None, "" and {} are falsy
Truthy(j) == j.k # "none" /\ j.v # <<>>

\* dict.get(key, default) on a flattened object
RECURSIVE DictGet(_, _, _)
DictGet(kv, key, default) ==
    IF Len(kv) < 2 THEN default
    ELSE IF kv[1] = key THEN kv[2]
    ELSE DictGet(SubSeq(kv, 3, Len(kv)), key, default)

\* str.split(maxsplit=n): at most n words and the unsplit remainder
SplitMax(words, n) ==
    IF Len(words) <= n THEN [parts |-> words, rest |-> <<>>]
    ELSE [parts |-> SubSeq(words, 1, n), rest |-> SubSeq(words, n + 1, Len(words))]

\* int(s) for the one-word strings of the model; anything else is ValueError
IntWords == {"-1", "0", "1", "2", "3", "4", "9"}
IntOfWord(w) ==
    CASE w = "-1" -> -1
      [] w = "0" -> 0
      [] w = "1" -> 1
      [] w = "2" -> 2
      [] w = "3" -> 3
      [] w = "4" -> 4
      [] w = "9" -> 9
      [] OTHER -> 0
IsInt(words) == Len(words) = 1 /\ words[1] \in IntWords
ToInt(words) == IntOfWord(words[1])

----------------------------------------------------------------------------
(* Messages the server sends                                               *)

NoMsg == [type |-> "", command |-> "", success |-> "absent", error |-> "",
          id |-> "", from |-> "", payload |-> <<>>, priority |-> -1,
          clients |-> {}, count |-> -1, re |-> 0]

Msg(type, command) == [NoMsg EXCEPT !.type = type, !.command = command]

----------------------------------------------------------------------------
(* State                                                                   *)

VARIABLES
    require_auth,           \* SecurityConfig.require_auth
    auth_token,             \* SecurityConfig.auth_token (JNone when unset)
    allowed_file_dirs,      \* SecurityConfig.allowed_file_dirs
    is_running,             \* CubismControllerHandler.is_running
    connected_clients,      \* set of connections
    client_id_map,          \* id -> connection (NoConn: no entry)
    authenticated_clients,  \* set of connections
    client_type_map,        \* id -> client type ("": no entry)
    transport,              \* per connection: "none", "open" or "closed"
    client_id,              \* per connection: the handler's local client_id
    upstream,               \* envelopes the bridge has sent, not yet read by its handler
    inbox,                  \* messages delivered to the bridge's socket, not yet received
    bridge,                 \* MCPHandler: position, websocket, current call, last result
    fanout,                 \* a pass over connected_clients suspended at an await
    turn                    \* the event loop's current turn: the handler step that
                            \* ran last and has not yet gone back to awaiting

registry == <<connected_clients, client_id_map, authenticated_clients, client_type_map>>
config == <<require_auth, auth_token, allowed_file_dirs>>
vars == <<require_auth, auth_token, allowed_file_dirs, is_running,
          connected_clients, client_id_map, authenticated_clients,
          client_type_map, transport, client_id, upstream, inbox, bridge, fanout, turn>>

----------------------------------------------------------------------------
(* Security Gate (security_config.py)                                      *)

\* a single-bit slip in the fail-closed test: an unset token is compared
validate_auth_token_no_failclosed(token) ==
    IF ~require_auth THEN TRUE
    ELSE token = auth_token

\* the comparison replaced by a presence test: any token given is accepted
validate_auth_token_anytoken(token) ==
    IF ~require_auth THEN TRUE
    ELSE IF ~Truthy(auth_token) THEN FALSE
    ELSE Truthy(token)

validate_auth_token(token) ==
    IF ~require_auth THEN TRUE
    ELSE IF ~Truthy(auth_token) THEN FALSE
    ELSE token = auth_token

\* a path is the sequence of its components below the root
IsUnder(dir, path) ==
    Len(dir) <= Len(path) /\ SubSeq(path, 1, Len(dir)) = dir

\* the file system of the model: directories, files and symbolic links
FileSystem ==
    LET Dir(p) == [p |-> p, k |-> "dir", to |-> <<>>]
        File(p) == [p |-> p, k |-> "file", to |-> <<>>]
        Link(p, to) == [p |-> p, k |-> "link", to |-> to]
    IN  { Dir(<<"wav">>), File(<<"wav", "in.wav">>), File(<<"wav", "empty.wav">>),
          Dir(<<"wav", "sub">>), File(<<"wav", "sub", "deep.wav">>),
          Link(<<"wav", "leak.wav">>, <<"etc", "out.wav">>),
          Link(<<"wav", "out">>, <<"etc">>),
          Link(<<"wav", "dangling.wav">>, <<"nowhere", "x.wav">>),
          Dir(<<"etc">>), File(<<"etc", "out.wav">>),
          Link(<<"etc", "in">>, <<"wav">>),
          Link(<<"etc", "loop.wav">>, <<"etc", "loop.wav">>),
          Dir(<<"wavx">>), File(<<"wavx", "in.wav">>) }
Exists(p) == \E n \in FileSystem : n.p = p
Node(p) == CHOOSE n \in FileSystem : n.p = p
IsSymlink(p) == Exists(p) /\ Node(p).k = "link"

\* symbolic links followed while one path is resolved
MaxLinks == 4

\* Path.resolve(strict=False): `..` steps up, a component that is a link is
\* replaced by its target, components that do not exist are kept
RECURSIVE ResolveFrom(_, _, _)
ResolveFrom(done, rest, links) ==
    IF rest = <<>> THEN done
    ELSE LET Walked(next) ==
                 IF Head(rest) = ".."
                 THEN [done |-> IF done = <<>> THEN <<>> ELSE SubSeq(done, 1, Len(done) - 1),
                       rest |-> Tail(rest), links |-> links]
                 ELSE IF IsSymlink(next)
                 THEN [done |-> <<>>, rest |-> Node(next).to \o Tail(rest),
                       links |-> links - 1]
                 ELSE [done |-> next, rest |-> Tail(rest), links |-> links]
             Onward(at) ==
                 IF at.links < 0 THEN <<"", "">>
                 ELSE ResolveFrom(at.done, at.rest, at.links)
         IN  Onward(Walked(Append(done, Head(rest))))
Resolve(p) == ResolveFrom(<<>>, p, MaxLinks)

\* the path strings of the model, and the components each one names
PathOf(f) ==
    CASE f = "in.wav" -> <<"wav", "in.wav">>
      [] f = "empty.wav" -> <<"wav", "empty.wav">>
      [] f = "out.wav" -> <<"etc", "out.wav">>
      [] f = "gone.wav" -> <<"wav", "gone.wav">>
      [] f = "deep.wav" -> <<"wav", "sub", "deep.wav">>
      [] f = "leak.wav" -> <<"wav", "leak.wav">>
      [] f = "viadir.wav" -> <<"wav", "out", "out.wav">>
      [] f = "back.wav" -> <<"etc", "in", "in.wav">>
      [] f = "dotdot.wav" -> <<"wav", "..", "etc", "out.wav">>
      [] f = "sibling.wav" -> <<"wavx", "in.wav">>
      [] f = "dangling.wav" -> <<"wav", "dangling.wav">>
      [] f = "loop.wav" -> <<"etc", "loop.wav">>
      [] f = "wav" -> <<"wav">>
\* the path strings the directives of the model carry
FileNames == {"in.wav", "out.wav", "gone.wav", "empty.wav"}
FileExists(f) == Exists(Resolve(PathOf(f)))
FileData(f) == IF f = "empty.wav" THEN "" ELSE "UklGRg=="

\* the containment test made on the path as written, links not followed
RealPath_literal(f) == PathOf(f)

\* abs_path, and real_path after the is_symlink() test
RealPath(f) ==
    LET Real(abs_path) == IF IsSymlink(abs_path) THEN Resolve(abs_path) ELSE abs_path
    IN  Real(Resolve(PathOf(f)))

\* the exists() test left out
PathMissing_never(f) == FALSE

\* `not abs_path.exists()`
PathMissing(f) == ~FileExists(f)

is_file_allowed(f) ==
    IF allowed_file_dirs = {} THEN FALSE
    ELSE IF PathMissing(f) THEN FALSE
    ELSE \E allowed_dir \in allowed_file_dirs : IsUnder(allowed_dir, RealPath(f))

\* is_file_allowed touches the file system unless the allow-list is empty
is_file_allowed_io == allowed_file_dirs # {}

----------------------------------------------------------------------------
(* Handler context: the registry as a handler step sees and changes it,    *)
(* with the sends it has made (out) and whether it touched the file system *)

Ctx0 == [cc |-> connected_clients, idm |-> client_id_map,
         auth |-> authenticated_clients, ctm |-> client_type_map,
         out |-> <<>>, io |-> FALSE]

InMap(idm, cid) == cid \in Ids /\ idm[cid] # NoConn

\* websocket.send: delivered iff the transport is open, else ConnectionClosed
SendOk(ws) == transport[ws] = "open"
Deliver(c, ws, m) ==
    [c EXCEPT !.out = Append(@, [to |-> ws, msg |-> m, ok |-> SendOk(ws)])]

\* broadcast_message: one send per registered connection, failures pruned
\* from connected_clients after the pass
RECURSIVE BroadcastFrom(_, _, _, _)
BroadcastFrom(c, ws, m, exclude) ==
    IF ws > NumConns THEN c
    ELSE IF ws \in c.cc /\ ws # exclude
         THEN BroadcastFrom(Deliver(c, ws, m), ws + 1, m, exclude)
         ELSE BroadcastFrom(c, ws + 1, m, exclude)

broadcast_message(c, m, exclude) ==
    LET d == BroadcastFrom(c, 0, m, exclude)
        disconnected == {ws \in c.cc : ws # exclude /\ ~SendOk(ws)}
    IN  [d EXCEPT !.cc = @ \ disconnected]

\* send_to_client: [c, ok]
send_to_client(c, cid, m) ==
    IF ~InMap(c.idm, cid) THEN [c |-> c, ok |-> FALSE]
    ELSE LET ws == c.idm[cid]
         IN  IF SendOk(ws)
             THEN [c |-> Deliver(c, ws, m), ok |-> TRUE]
             ELSE [c |-> [Deliver(c, ws, m) EXCEPT !.cc = @ \ {ws},
                                                   !.idm[cid] = NoConn],
                   ok |-> FALSE]

\* get_client_id
get_client_id(addr) == IF addr # NoAddr THEN addr ELSE "unknown"

----------------------------------------------------------------------------
(* Command Router: client_command                                          *)

R(c, ret) == [c |-> c, ret |-> ret, raised |-> FALSE]
\* an exception that leaves the handler's receive loop
Raise(c) == [c |-> c, ret |-> NoMsg, raised |-> TRUE]

Err(type, command, src, error) ==
    [Msg(type, command) EXCEPT !.from = src, !.error = error]
Ack(type, command, src) ==
    [Msg(type, command) EXCEPT !.from = src, !.success = "true"]

\* the text of a command field: one word, or a text no branch compares equal to
CmdText(j) == IF Len(j.v) = 1 THEN j.v[1] ELSE ""

ToggleCommands == {"set_eye_blink", "set_breath", "set_idle_motion",
                   "set_drag_follow", "set_physics"}
GetCommands == {"get_eye_blink", "get_breath", "get_idle_motion",
                "get_drag_follow", "get_physics", "get_expression",
                "get_motion", "get_model_name", "get_model_info",
                "get_position", "get_scale"}
\* the get_ acknowledgements that carry "success": True
GetWithSuccess == {"get_model_name", "get_model_info", "get_position", "get_scale"}
ResponseCommands == {"response_model_name", "response_expression"}

\* `len(args) > 0` followed by `args.strip().split(...)`:
\* None has no len(), a non-empty object has no strip()
ArgsRaise(args) == args.k = "none" \/ (args.k = "dict" /\ args.v # <<>>)
ArgsWords(args) == IF args.k = "str" THEN args.v ELSE <<>>

\* float(s) for the one-word strings of the model
FloatWords == IntWords \cup {"0.5", "-10.5"}

\* `enabled` of the five toggles
ToggleEnabled(args) ==
    IF args.k = "dict" THEN DictGet(args.v, "enabled", "true")
    ELSE IF \E i \in 1..Len(args.v) : args.v[i] = "enabled" THEN "true" ELSE "false"

Push(type, cid, src, payload) ==
    [Msg(type, "") EXCEPT !.id = cid, !.from = src, !.payload = payload]

\* the range test of set_motion off by one
PriorityInRange_upto4(n) == ~(n < 0 \/ n > 4)

PriorityInRange(n) == ~(n < 0 \/ n > 3)

set_motion(c, args, cid, src) ==
    IF ArgsRaise(args) THEN Raise(c)
    ELSE
    LET sp == SplitMax(ArgsWords(args), 2)
        group == IF Len(sp.parts) > 0 THEN <<sp.parts[1]>> ELSE <<>>
        no == IF Len(sp.parts) > 1 THEN <<sp.parts[2]>> ELSE <<>>
        priority == IF sp.rest # <<>> THEN sp.rest ELSE <<"2">>
    IN  IF group = <<>> THEN R(c, Err("client_request", "set_motion", src, "group_required"))
        ELSE IF no = <<>> THEN R(c, Err("client_request", "set_motion", src, "no_required"))
        ELSE IF ~IsInt(priority)
             THEN R(c, Err("client_request", "set_motion", src, "priority_not_integer"))
        ELSE IF ~PriorityInRange(ToInt(priority))
             THEN R(c, Err("client_request", "set_motion", src, "priority_out_of_range"))
        ELSE LET s == send_to_client(c, cid,
                        [Push("set_motion", cid, src, group \o no)
                            EXCEPT !.priority = ToInt(priority)])
             IN  R(s.c, [Ack("client_request", "set_motion", src)
                            EXCEPT !.payload = group \o no,
                                   !.priority = ToInt(priority)])

lipsync_authorized(c, src) ==
    IF require_auth
    THEN InMap(c.idm, src) /\ c.idm[src] \in c.auth
    ELSE TRUE

set_lipsync_from_file(c, args, cid, src) ==
    IF ~lipsync_authorized(c, src)
    THEN R(c, Err("client_request", "set_lipsync_from_file", src, "auth_required"))
    ELSE IF ArgsRaise(args) THEN Raise(c)
    ELSE
    LET sp == SplitMax(ArgsWords(args), 1)
        file_name == IF Len(sp.parts) > 0 THEN sp.parts[1] ELSE ""
        c1 == [c EXCEPT !.io = is_file_allowed_io]
        c2 == [c EXCEPT !.io = TRUE]
    IN  IF file_name = ""
        THEN R(c, Err("client_request", "set_lipsync_from_file", src, "file_required"))
        ELSE IF ~is_file_allowed(file_name)
        THEN R(c1, [Err("client_request", "set_lipsync_from_file", src, "file_denied")
                       EXCEPT !.payload = <<file_name>>])
        ELSE IF FileData(file_name) = ""
        THEN R(c2, [Err("client_request", "set_lipsync_from_file", src, "read_failed")
                       EXCEPT !.payload = <<file_name>>])
        ELSE LET s == send_to_client(c2, cid,
                        Push("set_lipsync", cid, src, <<FileData(file_name)>>))
             IN  R(s.c, Ack("client_request", "set_lipsync", src))

toggle_command(c, w, args, cid, src) ==
    IF ~Truthy(args) THEN R(c, Err("client", w, src, "enabled_required"))
    ELSE LET enabled == ToggleEnabled(args)
             s == send_to_client(c, cid, Push(w, cid, src, <<enabled>>))
         IN  R(s.c, [Ack("client_request", w, src) EXCEPT !.payload = <<enabled>>])

set_expression(c, args, cid, src) ==
    IF ArgsRaise(args) THEN Raise(c)
    ELSE
    LET sp == SplitMax(ArgsWords(args), 1)
        expression == IF Len(sp.parts) > 0 THEN sp.parts[1] ELSE ""
    IN  IF expression = ""
        THEN R(c, Err("client_request", "set_expression", src, "expression_required"))
        ELSE LET s == send_to_client(c, cid,
                        Push("set_expression", cid, src, <<expression>>))
             IN  R(s.c, [Ack("client_request", "set_expression", src)
                            EXCEPT !.id = cid, !.payload = <<expression>>])

set_lipsync(c, args, cid, src) ==
    IF ArgsRaise(args) THEN Raise(c)
    ELSE
    LET sp == SplitMax(ArgsWords(args), 1)
        wav_data == IF Len(sp.parts) > 0 THEN sp.parts[1] ELSE ""
    IN  IF wav_data = ""
        THEN R(c, Err("client_request", "set_lipsync", src, "wav_required"))
        ELSE LET s == send_to_client(c, cid, Push("set_lipsync", cid, src, <<wav_data>>))
             IN  R(s.c, Ack("client_request", "set_lipsync", src))

\* A set_parameter string is the sequence of its whitespace-separated
\* tokens, each token the sequence of its characters.
HasChar(chars, ch) == \E i \in 1..Len(chars) : chars[i] = ch
IsDigits(chars) ==
    \A i \in 1..Len(chars) :
        chars[i] \in {"0", "1", "2", "3", "4", "5", "6", "7", "8", "9"}
RECURSIVE DigitsValue(_)
DigitsValue(chars) ==
    LET ch == chars[Len(chars)]
        digit == CASE ch = "0" -> 0 [] ch = "1" -> 1 [] ch = "2" -> 2 [] ch = "3" -> 3
                   [] ch = "4" -> 4 [] ch = "5" -> 5 [] ch = "6" -> 6 [] ch = "7" -> 7
                   [] ch = "8" -> 8 [] ch = "9" -> 9
    IN  IF chars = <<>> THEN 0
        ELSE 10 * DigitsValue(SubSeq(chars, 1, Len(chars) - 1)) + digit

\* int(value) and float(value) raise ValueError on a text they cannot read
ValueError == [t |-> "ValueError"]

\* int(value): an optional sign and at least one digit
PyInt(value) ==
    LET signed == value # <<>> /\ value[1] \in {"+", "-"}
        Read(sign, u) ==
            IF u # <<>> /\ IsDigits(u) THEN [t |-> "int", n |-> sign * DigitsValue(u)]
            ELSE ValueError
    IN  Read(IF signed /\ value[1] = "-" THEN -1 ELSE 1,
             IF signed THEN Tail(value) ELSE value)

\* the number mantissa / 10^places in lowest terms of ten
RECURSIVE Reduced(_, _)
Reduced(mantissa, places) ==
    IF places > 0 /\ mantissa % 10 = 0 THEN Reduced(mantissa \div 10, places - 1)
    ELSE [t |-> "float", n |-> mantissa, places |-> places]

\* float(value) of a text that holds a '.': an optional sign, digits around
\* one '.', at least one digit
PyFloat(value) ==
    LET signed == value # <<>> /\ value[1] \in {"+", "-"}
        Read(sign, whole, frac) ==
            IF IsDigits(whole) /\ IsDigits(frac) /\ whole \o frac # <<>>
            THEN [Reduced(DigitsValue(whole \o frac), Len(frac)) EXCEPT !.n = sign * @]
            ELSE ValueError
        Split(sign, u, dot) == Read(sign, SubSeq(u, 1, dot - 1), SubSeq(u, dot + 1, Len(u)))
        Unsigned(sign, u) ==
            IF HasChar(u, ".") THEN Split(sign, u, CHOOSE i \in 1..Len(u) : u[i] = ".")
            ELSE ValueError
    IN  Unsigned(IF signed /\ value[1] = "-" THEN -1 ELSE 1,
                 IF signed THEN Tail(value) ELSE value)

\* the value of a pair: float when it holds a '.', int otherwise, the text
\* itself when the conversion raises ValueError
ConvertValue(value) ==
    LET Caught(number) == IF number = ValueError THEN [t |-> "str", s |-> value] ELSE number
    IN  Caught(IF HasChar(value, ".") THEN PyFloat(value) ELSE PyInt(value))

\* the pair is split at its last '='
SplitPoint_last(word) ==
    CHOOSE i \in 1..Len(word) : word[i] = "=" /\ \A j \in i + 1..Len(word) : word[j] # "="

\* param_pair.split('=', 1): the position of the first '='
SplitPoint(word) ==
    CHOOSE i \in 1..Len(word) : word[i] = "=" /\ \A j \in 1..i - 1 : word[j] # "="

\* parameters[key] = value: a key already present keeps its place
DictSet(parameters, key, value) ==
    IF \E i \in 1..Len(parameters) : parameters[i].key = key
    THEN [i \in 1..Len(parameters) |->
            IF parameters[i].key = key THEN [key |-> key, value |-> value]
            ELSE parameters[i]]
    ELSE Append(parameters, [key |-> key, value |-> value])

\* the loop over args.split(): a token without '=' is skipped
RECURSIVE ParsePairs(_, _)
ParsePairs(words, parameters) ==
    IF words = <<>> THEN parameters
    ELSE LET param_pair == Head(words)
         IN  ParsePairs(Tail(words),
                IF HasChar(param_pair, "=")
                THEN DictSet(parameters,
                             SubSeq(param_pair, 1, SplitPoint(param_pair) - 1),
                             ConvertValue(SubSeq(param_pair, SplitPoint(param_pair) + 1,
                                                 Len(param_pair))))
                ELSE parameters)
ParseParameters(words) == ParsePairs(words, <<>>)

set_parameter(c, args, cid, src) ==
    IF args.k = "none"
    THEN R(c, Err("client", "set_parameter", src, "bad_parameter_type"))
    ELSE IF args.k = "str" /\ args.v = <<>>
    THEN R(c, Err("client", "set_parameter", src, "parameters_required"))
    ELSE
    LET Sent(s, parameters) ==
            IF s.ok
            THEN R(s.c, [Ack("client", "set_parameter", src)
                            EXCEPT !.id = cid, !.payload = parameters])
            ELSE R(s.c, Err("client", "set_parameter", src, "send_failed"))
        Parsed(parameters) ==
            IF parameters = <<>>
            THEN R(c, Err("client", "set_parameter", src, "no_valid_parameters"))
            ELSE Sent(send_to_client(c, cid, Push("set_parameter", cid, src, parameters)),
                      parameters)
    IN  Parsed(IF args.k = "dict" THEN args.v ELSE ParseParameters(args.v))

\* the coordinates are forwarded as they come and tested afterwards
set_position_unchecked(c, args, cid, src) ==
    IF ArgsRaise(args) THEN Raise(c)
    ELSE
    LET parts == ArgsWords(args)
        Sent(s) ==
            IF parts[1] \notin FloatWords \/ parts[2] \notin FloatWords
            THEN R(s.c, Err("client_request", "set_position", src, "xy_not_numeric"))
            ELSE R(s.c, [Ack("client_request", "set_position", src)
                            EXCEPT !.payload = <<parts[1], parts[2], "false">>])
    IN  IF Len(parts) < 2
        THEN R(c, Err("client_request", "set_position", src, "xy_required"))
        ELSE Sent(send_to_client(c, cid, Push("set_position", cid, src,
                                              <<parts[1], parts[2], "false">>)))

set_position(c, args, cid, src) ==
    IF ArgsRaise(args) THEN Raise(c)
    ELSE
    LET parts == ArgsWords(args)
    IN  IF Len(parts) < 2
        THEN R(c, Err("client_request", "set_position", src, "xy_required"))
        ELSE IF parts[1] \notin FloatWords \/ parts[2] \notin FloatWords
        THEN R(c, Err("client_request", "set_position", src, "xy_not_numeric"))
        ELSE LET relative == IF Len(parts) > 2 /\ parts[3] = "relative"
                             THEN "true" ELSE "false"
                 data == <<parts[1], parts[2], relative>>
                 s == send_to_client(c, cid, Push("set_position", cid, src, data))
             IN  R(s.c, [Ack("client_request", "set_position", src) EXCEPT !.payload = data])

set_scale(c, args, cid, src) ==
    IF ArgsRaise(args) THEN Raise(c)
    ELSE
    LET parts == ArgsWords(args)
    IN  IF parts = <<>>
        THEN R(c, Err("client_request", "set_scale", src, "scale_required"))
        ELSE IF parts[1] \notin FloatWords
        THEN R(c, Err("client_request", "set_scale", src, "scale_not_numeric"))
        ELSE LET s == send_to_client(c, cid, Push("set_scale", cid, src, <<parts[1]>>))
             IN  R(s.c, [Ack("client_request", "set_scale", src) EXCEPT !.payload = <<parts[1]>>])

\* the request goes to every registered session
get_command_toall(c, w, cid, src) ==
    LET b == broadcast_message(c, [Msg("request", w) EXCEPT !.from = src], NoConn)
        ack == [Msg("client_request", w) EXCEPT !.from = src, !.id = cid]
    IN  R(b, IF w \in GetWithSuccess THEN [ack EXCEPT !.success = "true"] ELSE ack)

\* get_*: a request_<state> push, acknowledged at once
get_command(c, w, cid, src) ==
    LET s == send_to_client(c, cid, [Msg("request", w) EXCEPT !.from = src])
        ack == [Msg("client_request", w) EXCEPT !.from = src, !.id = cid]
    IN  R(s.c, IF w \in GetWithSuccess THEN [ack EXCEPT !.success = "true"] ELSE ack)

\* response_*: telemetry routed back to the session named by `from`
response_command(c, w, args, cid, src) ==
    LET fwd == [Msg("command_response", w) EXCEPT !.id = cid, !.payload = args.v]
        c1 == IF src # "" /\ cid # src /\ InMap(c.idm, src)
              THEN send_to_client(c, src, fwd).c ELSE c
    IN  R(c1, [Ack("client_response", w, src) EXCEPT !.id = cid, !.payload = args.v])

UnknownClientCommand(c, w, src) ==
    R(c, Err("client", w, src, "unknown_client_command"))

\* thanks: records the role, then falls through to the final return
thanks_command(c, w, args, cid, src) ==
    IF args.k # "dict" THEN Raise(c)
    ELSE UnknownClientCommand(
            [c EXCEPT !.ctm[cid] = DictGet(args.v, "client_type", "unknown")], w, src)

\* the lookup at the head of client_command left out
TargetKnown_always(c, cid) == TRUE

\* the registry lookup at the head of client_command
TargetKnown(c, cid) == InMap(c.idm, cid)

client_command(c, command, args, cid, src) ==
    IF ~TargetKnown(c, cid)
    THEN R(c, [Err("client", CmdText(command), src, "client_not_found") EXCEPT !.id = cid])
    ELSE IF command.k # "str" THEN Raise(c)
    ELSE
    LET w == CmdText(command)
    IN  CASE w \in ResponseCommands -> response_command(c, w, args, cid, src)
          [] w \in {"thanks"} -> thanks_command(c, w, args, cid, src)
          [] w \in ToggleCommands -> toggle_command(c, w, args, cid, src)
          [] w = "set_expression" -> set_expression(c, args, cid, src)
          [] w = "set_motion" -> set_motion(c, args, cid, src)
          [] w = "set_lipsync" -> set_lipsync(c, args, cid, src)
          [] w = "set_lipsync_from_file" -> set_lipsync_from_file(c, args, cid, src)
          [] w = "set_parameter" -> set_parameter(c, args, cid, src)
          [] w = "set_position" -> set_position(c, args, cid, src)
          [] w = "set_scale" -> set_scale(c, args, cid, src)
          [] w \in GetCommands -> get_command(c, w, cid, src)
          [] OTHER -> UnknownClientCommand(c, w, src)

----------------------------------------------------------------------------
(* Model Index queries (model_command), reduced to found / not found       *)

Models == {"Haru"}

model_command(c, command, args, cid) ==
    LET w == IF command.k = "str" THEN CmdText(command) ELSE ""
        resp == [Msg("command_response", "model") EXCEPT !.from = cid, !.payload = <<w>>]
    IN  IF w = "list"
        THEN R(c, [resp EXCEPT !.clients = Models])
        ELSE IF w \in {"get_expressions", "get_motions", "get_parameters"}
        THEN IF ~Truthy(args) THEN R(c, [resp EXCEPT !.error = "model_name_required"])
             ELSE IF args.k = "str" /\ Len(args.v) = 1 /\ args.v[1] \in Models
             THEN R(c, [resp EXCEPT !.payload = <<w, args.v[1]>>, !.count = 0])
             ELSE IF w = "get_parameters"
             THEN R(c, [resp EXCEPT !.count = 0])
             ELSE R(c, [resp EXCEPT !.error = "model_not_found"])
        ELSE R(c, [resp EXCEPT !.error = "unknown_model_command"])

----------------------------------------------------------------------------
(* Command Router: process_command                                         *)

\* the sender is not left out of the list
ListOthers_withself(c, cid) ==
    {x \in Ids : InMap(c.idm, x) /\ c.ctm[x] = "ActorDoll"}

\* other_clients of `list`: registered ids other than the caller's whose
\* recorded type is 'ActorDoll' (an id without a type counts as "API")
ListOthers(c, cid) ==
    {x \in Ids : InMap(c.idm, x) /\ x # cid /\ c.ctm[x] = "ActorDoll"}

ListCount(c, others) == Cardinality(others)

list_command(c, cid) ==
    LET others == IF \E x \in Ids : InMap(c.idm, x) THEN ListOthers(c, cid) ELSE {}
        count == IF \E x \in Ids : InMap(c.idm, x) THEN ListCount(c, others) ELSE 0
    IN  R(c, [Msg("command_response", "list")
                EXCEPT !.from = cid, !.clients = others, !.count = count])

auth_command(c, words, cid) ==
    IF Len(words) < 2
    THEN R(c, Err("command_response", "auth", cid, "usage_auth"))
    ELSE IF validate_auth_token(JStr(SubSeq(words, 2, Len(words))))
    THEN R(IF InMap(c.idm, cid) THEN [c EXCEPT !.auth = @ \cup {c.idm[cid]}] ELSE c,
           Ack("command_response", "auth", cid))
    ELSE R(c, [Err("command_response", "auth", cid, "invalid_token")
                 EXCEPT !.success = "false"])

\* the notify broadcast leaves out the session that asked for it
notify_command_excluding_sender(c, words, cid) ==
    IF Len(words) < 2 THEN Raise(c)
    ELSE LET message == SubSeq(words, 2, Len(words))
             b == broadcast_message(c,
                    [Msg("notify", "") EXCEPT !.from = cid, !.payload = message],
                    c.idm[cid])
         IN  R(b, [Msg("command_response", "notify")
                     EXCEPT !.from = cid, !.payload = message])

notify_command(c, words, cid) ==
    IF Len(words) < 2 THEN Raise(c)
    ELSE LET message == SubSeq(words, 2, Len(words))
             b == broadcast_message(c,
                    [Msg("notify", "") EXCEPT !.from = cid, !.payload = message], NoConn)
         IN  R(b, [Msg("command_response", "notify")
                     EXCEPT !.from = cid, !.payload = message])

send_command(c, words, cid) ==
    IF Len(words) < 2 THEN Raise(c)
    ELSE LET args == SplitMax(SubSeq(words, 2, Len(words)), 2)
         IN  IF Len(args.parts) < 2
             THEN R(c, Err("command_response", "send", cid, "usage_send"))
             ELSE LET s == send_to_client(c, args.parts[1],
                             [Msg("send", "") EXCEPT !.from = cid,
                                                     !.payload = <<args.parts[2]>>])
                  IN  R(s.c, [Msg("command_response", "send")
                                EXCEPT !.from = cid,
                                       !.id = args.parts[1],
                                       !.success = IF s.ok THEN "true" ELSE "false"])

process_command(c, user_input, cid) ==
    IF user_input.k # "str" \/ user_input.v = <<>> THEN Raise(c)
    ELSE
    LET words == user_input.v
        command == words[1]
    IN  CASE command = "status" ->
                R(c, [Msg("command_response", "status")
                        EXCEPT !.from = cid, !.count = Cardinality(c.cc)])
          [] command = "auth" -> auth_command(c, words, cid)
          [] command = "ping" ->
                R(c, [Msg("command_response", "ping") EXCEPT !.from = cid,
                                                             !.payload = <<"pong">>])
          [] command = "list" -> list_command(c, cid)
          [] command = "notify" -> notify_command(c, words, cid)
          [] command = "send" -> send_command(c, words, cid)
          [] command = "model" ->
                IF Len(words) < 2
                THEN R(c, Err("command_response", "model", cid, "usage_model"))
                ELSE model_command(c, JStr(<<words[2]>>),
                                   JStr(SubSeq(words, 3, Len(words))), cid)
          [] command = "client" ->
                IF Len(words) < 3
                THEN R(c, Err("command_response", "client", cid, "usage_client"))
                ELSE client_command(c, JStr(<<words[3]>>),
                                    JStr(SubSeq(words, 4, Len(words))), words[2], cid)
          [] OTHER -> R(c, Err("command_response", command, cid, "unknown_command"))

----------------------------------------------------------------------------
(* handle_client: one iteration of the receive loop, and the cleanup       *)

\* an envelope as received: data.get("type"), "command", "args", "from",
\* "token"; client_id is the field the bridge adds; rq numbers a bridge request
Envelope(type, command, args, from, token) ==
    [type |-> type, command |-> command, args |-> args, from |-> from,
     token |-> token, client_id |-> "", rq |-> 0]
NoEnv == Envelope("", JNone, JNone, "", JNone)

\* a failed attempt revokes an earlier authentication
auth_envelope_revoking(c, ws, token) ==
    IF validate_auth_token(token)
    THEN Deliver([c EXCEPT !.auth = @ \cup {ws}], ws,
                 [Msg("auth_success", "") EXCEPT !.id = client_id[ws]])
    ELSE Deliver([c EXCEPT !.auth = @ \ {ws}], ws, Msg("auth_failed", ""))

\* the `auth` envelope
auth_envelope(c, ws, token) ==
    IF validate_auth_token(token)
    THEN Deliver([c EXCEPT !.auth = @ \cup {ws}], ws,
                 [Msg("auth_success", "") EXCEPT !.id = client_id[ws]])
    ELSE Deliver(c, ws, Msg("auth_failed", ""))

\* a received text that json.loads rejects; the marker is the `type` of no
\* parsed envelope
Unparsable == Envelope("<not JSON>", JNone, JNone, "", JNone)

\* the JSONDecodeError handler answers every registered session
json_decode_error_toall(c, ws) == broadcast_message(c, Msg("error", ""), NoConn)

\* the JSONDecodeError handler of the receive loop
json_decode_error(c, ws) == Deliver(c, ws, Msg("error", ""))

handle_message(c, ws, env) ==
    LET cid == client_id[ws]
        Replied(r) == IF r.raised THEN r ELSE R(Deliver(r.c, ws, r.ret), r.ret)
    IN  CASE env = Unparsable -> R(json_decode_error(c, ws), NoMsg)
          [] env.type = "echo" ->
                R(Deliver(c, ws, Msg("echo_response", "")), NoMsg)
          [] env.type = "auth" -> R(auth_envelope(c, ws, env.token), NoMsg)
          [] env.type = "broadcast" ->
                R(broadcast_message(c, [Msg("broadcast_message", "") EXCEPT !.from = cid],
                                    NoConn), NoMsg)
          [] env.type = "command" -> Replied(process_command(c, env.command, cid))
          [] env.type = "model" -> Replied(model_command(c, env.command, env.args, cid))
          [] env.type = "client" ->
                client_command(c, env.command, env.args, cid, env.from)
          [] OTHER ->
                R(broadcast_message(c, [Msg("message", "") EXCEPT !.from = cid], ws), NoMsg)

\* the finally block: the session leaves every map, then the disconnect
\* notice with the remaining count is broadcast
Finally(c, ws) ==
    LET cid == client_id[ws]
        c1 == [c EXCEPT !.cc = @ \ {ws}, !.auth = @ \ {ws},
                        !.idm[cid] = NoConn, !.ctm[cid] = ""]
    IN  broadcast_message(c1, [Msg("client_disconnected", "")
                                  EXCEPT !.count = Cardinality(c1.cc)], NoConn)

\* every send of a step is marked with the bridge request that caused it
TagOut(out, rq) ==
    [i \in 1..Len(out) |-> [out[i] EXCEPT !.msg.re = rq]]

RECURSIVE ToBridge(_)
ToBridge(out) ==
    IF out = <<>> THEN <<>>
    ELSE IF Head(out).to = BridgeWs /\ Head(out).ok
         THEN <<Head(out).msg>> \o ToBridge(Tail(out))
         ELSE ToBridge(Tail(out))

Step(kind, ws, env, ret, out, io, raised) ==
    [kind |-> kind, ws |-> ws, env |-> env, ret |-> ret, out |-> out,
     io |-> io, raised |-> raised]

\* the registry and the bridge's socket after a handler step
Commit(c, out) ==
    /\ Len(inbox) + Len(ToBridge(out)) <= MaxInbox
    /\ inbox' = inbox \o ToBridge(out)
    /\ connected_clients' = c.cc
    /\ client_id_map' = c.idm
    /\ authenticated_clients' = c.auth
    /\ client_type_map' = c.ctm

----------------------------------------------------------------------------
(* Inputs: the envelopes a client may send                                 *)

Tokens == {JNone, JStr(<<>>), JStr(<<"secret">>), JStr(<<"wrong">>)}

Command(words) == Envelope("command", JStr(words), JNone, "", JNone)
ClientTyped(command, args, from) == Envelope("client", JStr(<<command>>), args, from, JNone)

\* session, authentication and listing traffic
SessionEnvelopes ==
    { Envelope("echo", JNone, JNone, "", JNone),
      Envelope("broadcast", JNone, JNone, "", JNone),
      Envelope("message", JNone, JNone, "", JNone),
      Envelope("bogus", JNone, JNone, "", JNone),
      Envelope("command", JNone, JNone, "", JNone),
      Envelope("model", JStr(<<"list">>), JStr(<<>>), "", JNone),
      Command(<<"list">>), Command(<<"status">>), Command(<<"bogus">>),
      Command(<<"auth", "secret">>), Command(<<"auth", "wrong">>),
      Command(<<"notify", "hi">>),
      ClientTyped("thanks", JDict(<<"client_type", "ActorDoll">>), ""),
      Unparsable }
    \cup { Envelope("auth", JNone, JNone, "", t) : t \in Tokens }
    \cup { Command(<<"client", id, "set_lipsync_from_file", "in.wav">>) : id \in Ids }
    \cup { ClientTyped("set_lipsync_from_file", JStr(<<"in.wav">>), f) : f \in Ids \cup {""} }

----------------------------------------------------------------------------
(* Initial state: the policy has been read and run() is serving            *)

Configs ==
    { <<TRUE, JNone, {<<"wav">>}>>, <<TRUE, JStr(<<>>), {}>>,
      <<TRUE, JStr(<<"secret">>), {<<"wav">>}>>, <<FALSE, JStr(<<"secret">>), {<<"wav">>}>> }

\* run(): timeout_counter = 10
timeout_counter_init == 10

Bridge0 == [pc |-> "start", thanked |-> FALSE, calls |-> 0, call |-> NoEnv, tool |-> "",
            result |-> NoMsg, outcome |-> "none", second |-> NoEnv, state |-> <<>>,
            timeout_counter |-> timeout_counter_init, attempts |-> 0]

\* no pass over connected_clients is under way
NoFanout == [pc |-> "none", ws |-> NoConn, size |-> 0, at |-> NoConn, seen |-> {},
             failed |-> {}, stayed |-> {}, out |-> <<>>]

Idle == Step("idle", NoConn, NoEnv, NoMsg, <<>>, FALSE, FALSE)

Init ==
    /\ \E cf \in Configs :
        /\ require_auth = cf[1]
        /\ auth_token = cf[2]
        /\ allowed_file_dirs = cf[3]
    /\ is_running = TRUE
    /\ connected_clients = {}
    /\ client_id_map = [i \in Ids |-> NoConn]
    /\ authenticated_clients = {}
    /\ client_type_map = [i \in Ids |-> ""]
    /\ transport = [w \in Conns |-> "none"]
    /\ client_id = [w \in Conns |-> ""]
    /\ upstream = <<>>
    /\ inbox = <<>>
    /\ bridge = Bridge0
    /\ fanout = NoFanout
    /\ turn = Idle

----------------------------------------------------------------------------
(* Server actions.  The event loop runs one handler step at a time: a step *)
(* starts only when no other step is running (turn = Idle).                *)

\* the running step reaches its next await of the receive loop
Yield ==
    /\ turn # Idle
    /\ turn' = Idle
    /\ UNCHANGED <<config, fanout, is_running, registry, transport, client_id,
                   upstream, inbox, bridge>>

\* the session is registered and its welcome is left for a later step
Register_unwelcomed(ws, addr) ==
    LET cid == get_client_id(addr)
        c == [Ctx0 EXCEPT !.cc = @ \cup {ws}, !.idm[cid] = ws]
    IN  /\ turn = Idle
        /\ transport[ws] = "none" /\ is_running
        /\ transport' = [transport EXCEPT ![ws] = "open"]
        /\ client_id' = [client_id EXCEPT ![ws] = cid]
        /\ Commit(c, <<>>)
        /\ turn' = Step("connect", ws, NoEnv, NoMsg, <<>>, FALSE, FALSE)

\* handle_client up to the receive loop: register, send the welcome
Register(ws, addr) ==
    LET cid == get_client_id(addr)
        c == [Ctx0 EXCEPT !.cc = @ \cup {ws}, !.idm[cid] = ws]
        welcome == [to |-> ws, msg |-> [Msg("welcome", "") EXCEPT !.id = cid], ok |-> TRUE]
    IN  /\ turn = Idle
        /\ transport[ws] = "none" /\ is_running
        /\ transport' = [transport EXCEPT ![ws] = "open"]
        /\ client_id' = [client_id EXCEPT ![ws] = cid]
        /\ Commit(c, <<welcome>>)
        /\ turn' = Step("connect", ws, NoEnv, NoMsg, <<welcome>>, FALSE, FALSE)

Connect(ws, addr) ==
    /\ Register(ws, addr)
    /\ UNCHANGED <<config, fanout, is_running, upstream, bridge>>

\* one message read from an open transport and handled; an exception that
\* escapes the loop runs the finally block and ends the connection
Handle(ws, env) ==
    LET Committed(h, c, out) ==
            /\ turn = Idle
            /\ transport[ws] = "open"
            /\ Commit(c, out)
            /\ transport' = IF h.raised THEN [transport EXCEPT ![ws] = "none"]
                             ELSE transport
            /\ client_id' = IF h.raised THEN [client_id EXCEPT ![ws] = ""] ELSE client_id
            /\ turn' = Step("handle", ws, env, [h.ret EXCEPT !.re = env.rq], out, c.io,
                            h.raised)
        Cleaned(h, c) == Committed(h, c, TagOut(c.out, env.rq))
        Handled(h) == Cleaned(h, IF h.raised THEN Finally(h.c, ws) ELSE h.c)
    IN  Handled(handle_message(Ctx0, ws, env))

ClientMessage(ws, env) ==
    /\ Handle(ws, env)
    /\ UNCHANGED <<config, fanout, is_running, upstream, bridge>>

\* the peer closes, or the connection is lost
Close(ws) ==
    /\ turn = Idle
    /\ transport[ws] = "open"
    /\ transport' = [transport EXCEPT ![ws] = "closed"]
    /\ upstream' = IF ws = BridgeWs THEN <<>> ELSE upstream
    /\ UNCHANGED <<config, fanout, is_running, registry, client_id, inbox, bridge, turn>>

\* the receive loop ends with ConnectionClosed: the finally block
Cleanup(ws) ==
    LET c == Finally(Ctx0, ws)
    IN  /\ turn = Idle
        /\ transport[ws] = "closed"
        /\ Commit(c, c.out)
        /\ transport' = [transport EXCEPT ![ws] = "none"]
        /\ client_id' = [client_id EXCEPT ![ws] = ""]
        /\ turn' = Step("cleanup", ws, NoEnv, NoMsg, c.out, FALSE, FALSE)
        /\ UNCHANGED <<config, fanout, is_running, upstream, bridge>>

\* stop(): shutdown notice, every registered connection closed, maps cleared
Stop ==
    LET b == broadcast_message(Ctx0, Msg("server_shutdown", ""), NoConn)
        c == [b EXCEPT !.cc = {}, !.idm = [i \in Ids |-> NoConn], !.auth = {}]
    IN  /\ turn = Idle
        /\ is_running
        /\ is_running' = FALSE
        /\ Commit(c, c.out)
        /\ transport' = [w \in Conns |->
                            IF w \in b.cc /\ transport[w] = "open" THEN "closed"
                            ELSE transport[w]]
        /\ upstream' = IF BridgeWs \in b.cc THEN <<>> ELSE upstream
        /\ turn' = Step("stop", NoConn, NoEnv, NoMsg, c.out, FALSE, FALSE)
        /\ UNCHANGED <<config, fanout, client_id, bridge>>

Next ==
    \/ \E ws \in Clients : \E addr \in {PeerAddr(ws), NoAddr} : Connect(ws, addr)
    \/ \E ws \in Clients, env \in SessionEnvelopes : ClientMessage(ws, env)
    \/ \E ws \in Clients : Close(ws)
    \/ \E ws \in Clients : Cleanup(ws)
    \/ Stop
    \/ Yield

Spec == Init /\ [][Next]_vars

----------------------------------------------------------------------------
(* The router under directive traffic                                      *)

\* ids a directive may name: one that is registered while connection 1 is
\* up, and one that never is
RouterTargets == {PeerAddr(1), "nobody"}

RouterEnvelopes ==
    { Command(<<"client", t, "set_motion">> \o a) :
        t \in RouterTargets,
        a \in { <<>>, <<"Idle">>, <<"Idle", "0">>, <<"Idle", "0", "0">>,
                <<"Idle", "0", "3">>, <<"Idle", "0", "4">>, <<"Idle", "0", "-1">>,
                <<"Idle", "0", "x">>, <<"Idle", "0", "2", "now">> } }
    \cup { Command(<<"client", "nobody">> \o d) :
             d \in { <<"get_model_name">>, <<"set_expression", "happy">>,
                     <<"set_lipsync_from_file", "in.wav">>, <<"thanks">>, <<"bogus">> } }
    \cup { Command(<<"send", t, "m">>) : t \in RouterTargets }
    \cup { Command(<<"client", PeerAddr(1), "get_eye_blink">>) }
    \cup { Command(<<"client", PeerAddr(1)>> \o d) :
             d \in { <<"set_expression">>, <<"set_position", "1">>,
                     <<"set_position", "1", "x">>, <<"set_scale", "x">>,
                     <<"set_lipsync_from_file">>, <<"set_lipsync_from_file", "out.wav">> } }
    \cup { ClientTyped("set_parameter", JStr(a), "") : a \in { <<>>, << <<"F", "o", "o">> >> } }
    \cup { ClientTyped("set_motion", a, "") :
             a \in { JStr(<<"Idle", "0">>), JStr(<<"Idle", "0", "9">>),
                     JDict(<<"group", "Idle">>) } }
    \cup { ClientTyped("get_model_name", JDict(<<>>), "") }
    \cup { ClientTyped("response_model_name", JStr(<<"Haru">>), f) :
             f \in {"", PeerAddr(1), PeerAddr(2), "nobody"} }
    \cup { ClientTyped("thanks", JDict(<<"client_type", t>>), "") : t \in {"ActorDoll", "MCP"} }

NextRouter ==
    \/ \E ws \in Clients : \E addr \in {PeerAddr(ws), NoAddr} : Connect(ws, addr)
    \/ \E ws \in Clients, env \in RouterEnvelopes : ClientMessage(ws, env)
    \/ \E ws \in Clients : Close(ws)
    \/ \E ws \in Clients : Cleanup(ws)
    \/ Yield

SpecRouter == Init /\ [][NextRouter]_vars

----------------------------------------------------------------------------
(* Tool Bridge (handler_mcp.py)                                            *)

BridgeError == [NoMsg EXCEPT !.error = "exception"]

\* run(): websockets.connect succeeds; the server registers the session
BridgeConnect(addr) ==
    /\ bridge.pc = "start"
    /\ Register(BridgeWs, addr)
    /\ bridge' = [bridge EXCEPT !.pc = "handshake", !.attempts = @ + 1]
    /\ UNCHANGED <<config, fanout, is_running, upstream>>

\* _send_thank_you_message
ThankYou(cid) ==
    IF cid # "unknown" /\ transport[BridgeWs] = "open"
    THEN <<[ClientTyped("thanks", JDict(<<"client_type", "MCP">>), cid)
               EXCEPT !.client_id = ""]>>
    ELSE <<>>

\* run(): the loop that waits for the welcome; it also ends, without a
\* welcome, when the connection is closed
BridgeHandshake ==
    /\ turn = Idle
    /\ bridge.pc = "handshake"
    /\ \/ /\ inbox # <<>>
          /\ inbox' = Tail(inbox)
          /\ IF Head(inbox).type = "welcome"
             THEN /\ upstream' = upstream \o ThankYou(Head(inbox).id)
                  /\ bridge' = [bridge EXCEPT !.pc = "idle",
                                               !.thanked = ThankYou(Head(inbox).id) # <<>>]
             ELSE UNCHANGED <<upstream, bridge>>
       \/ /\ inbox = <<>> /\ transport[BridgeWs] # "open"
          /\ bridge' = [bridge EXCEPT !.pc = "idle"]
          /\ UNCHANGED <<upstream, inbox>>
    /\ UNCHANGED <<config, fanout, is_running, registry, transport, client_id, turn>>

\* the envelope each tool builds
ToolEnvelope(tool, target, arg) ==
    CASE tool = "list_clients" -> Command(<<"list">>)
      [] tool = "get_model_list" -> Envelope("model", JStr(<<"list">>), JStr(<<>>), "", JNone)
      [] tool = "set_expression" ->
            [ClientTyped("set_expression", JStr(arg), "mcp") EXCEPT !.client_id = target]
      [] tool = "notify" -> Command(<<"notify">> \o arg)

\* the tools that go through _send_command; notify goes through _send_notify
AwaitsReply(tool) == tool # "notify"

\* a tool invocation up to its send
BridgeCall(tool, target, arg) ==
    LET env == [ToolEnvelope(tool, target, arg) EXCEPT !.rq = bridge.calls + 1]
        sent == transport[BridgeWs] = "open"
    IN  /\ turn = Idle
        /\ bridge.pc = "idle" /\ bridge.calls < MaxCalls
        /\ upstream' = IF sent THEN Append(upstream, env) ELSE upstream
        /\ bridge' = [bridge EXCEPT
                        !.calls = @ + 1, !.call = env, !.tool = tool,
                        !.pc = IF sent /\ AwaitsReply(tool) THEN "sent" ELSE "idle",
                        !.result = IF ~AwaitsReply(tool)
                                   THEN [NoMsg EXCEPT !.type = "notified"]
                                   ELSE IF sent THEN NoMsg ELSE BridgeError,
                        !.outcome = IF ~AwaitsReply(tool) THEN "NOTIFIED"
                                    ELSE IF sent THEN "SENT" ELSE "SESSION_CLOSED"]
        /\ UNCHANGED <<config, fanout, is_running, registry, transport, client_id, inbox, turn>>

\* _send_command: recv() returns the next message on the upstream session
BridgeRecv ==
    /\ turn = Idle
    /\ bridge.pc = "sent" /\ inbox # <<>>
    /\ inbox' = Tail(inbox)
    /\ bridge' = [bridge EXCEPT !.pc = "idle", !.result = Head(inbox),
                                !.outcome = "REPLIED"]
    /\ UNCHANGED <<config, fanout, is_running, registry, transport, client_id, upstream, turn>>

\* _send_command: recv() raises ConnectionClosed
BridgeRecvClosed ==
    /\ turn = Idle
    /\ bridge.pc = "sent" /\ inbox = <<>> /\ transport[BridgeWs] # "open"
    /\ bridge' = [bridge EXCEPT !.pc = "idle", !.result = BridgeError,
                                !.outcome = "SESSION_CLOSED"]
    /\ UNCHANGED <<config, fanout, is_running, registry, transport, client_id, upstream,
                   inbox, turn>>

\* call_tool has no lock: a second invocation (another tool caller's task)
\* starts while the first awaits its recv(), and sends its envelope
BridgeOverlapSend(tool, target, arg) ==
    LET env == [ToolEnvelope(tool, target, arg) EXCEPT !.rq = bridge.calls + 1]
    IN  /\ turn = Idle
        /\ bridge.pc = "sent" /\ bridge.second = NoEnv /\ bridge.calls < MaxCalls
        /\ AwaitsReply(tool) /\ transport[BridgeWs] = "open"
        /\ upstream' = Append(upstream, env)
        /\ bridge' = [bridge EXCEPT !.calls = @ + 1, !.second = env]
        /\ UNCHANGED <<config, fanout, is_running, registry, transport, client_id, inbox, turn>>

\* the second invocation reaches its recv(): the library refuses a recv()
\* while another is waiting, and _send_command returns the error; when the
\* first has returned meanwhile, the second waits in its place
BridgeOverlapRecv ==
    /\ turn = Idle
    /\ bridge.second # NoEnv
    /\ bridge' = IF bridge.pc = "sent"
                 THEN [bridge EXCEPT !.second = NoEnv]
                 ELSE [bridge EXCEPT !.second = NoEnv, !.pc = "sent",
                                     !.call = bridge.second,
                                     !.tool = "list_clients",  \* the tool NextCallers overlaps
                                     !.result = NoMsg, !.outcome = "SENT"]
    /\ UNCHANGED <<config, fanout, is_running, registry, transport, client_id, upstream,
                   inbox, turn>>

\* the handler takes the newest waiting envelope instead of the oldest
ServerHandle_newest ==
    /\ upstream # <<>>
    /\ Handle(BridgeWs, upstream[Len(upstream)])
    /\ upstream' = IF transport'[BridgeWs] = "open"
                   THEN SubSeq(upstream, 1, Len(upstream) - 1) ELSE <<>>
    /\ UNCHANGED <<config, fanout, is_running, bridge>>

\* the bridge's session handler reads the next envelope the bridge sent
ServerHandle ==
    /\ upstream # <<>>
    /\ Handle(BridgeWs, Head(upstream))
    /\ upstream' = IF transport'[BridgeWs] = "open" THEN Tail(upstream) ELSE <<>>
    /\ UNCHANGED <<config, fanout, is_running, bridge>>

\* the render clients connected beside the bridge
NumBridgePeers == 1
BridgePeers == 1..NumBridgePeers

\* the bridge runs against a server that requires authentication
InitBridge == Init /\ require_auth /\ Truthy(auth_token)

BridgeTools ==
    { <<"list_clients", "", <<>>>>, <<"get_model_list", "", <<>>>>,
      <<"set_expression", PeerAddr(1), <<"happy">>>>,
      <<"set_expression", PeerAddr(1), <<>>>>,
      <<"notify", "", <<"hi">>>> }

NextBridge ==
    \/ \E addr \in {PeerAddr(BridgeWs), NoAddr} : BridgeConnect(addr)
    \/ BridgeHandshake
    \/ \E t \in BridgeTools : BridgeCall(t[1], t[2], t[3])
    \/ BridgeRecv
    \/ BridgeRecvClosed
    \/ ServerHandle
    \/ \E ws \in BridgePeers : Connect(ws, PeerAddr(ws))
    \/ \E ws \in BridgePeers :
          ClientMessage(ws, ClientTyped("thanks", JDict(<<"client_type", "ActorDoll">>), ""))
    \/ \E ws \in Conns : Close(ws)
    \/ \E ws \in Conns : Cleanup(ws)
    \/ Yield

SpecBridge == InitBridge /\ [][NextBridge]_vars

\* the event loop runs ready tasks in turn, so a task that is ready again
\* and again does run: the bridge's handler reads what the bridge sent, a
\* receive that can return returns, and a closed connection's handler
\* reaches its finally block.  (Strong fairness: a step is disabled while
\* another handler's turn lasts.)
FairBridge ==
    /\ SpecBridge
    /\ WF_vars(Yield)
    /\ SF_vars(ServerHandle)
    /\ SF_vars(BridgeHandshake)
    /\ SF_vars(BridgeRecv)
    /\ SF_vars(BridgeRecvClosed)
    /\ \A ws \in Conns : SF_vars(Cleanup(ws))

\* the server with the bridge connected but idle: every client connection
\* beside it, exchanging broadcasts
NextIdleBridge ==
    \/ \E addr \in {PeerAddr(BridgeWs), NoAddr} : BridgeConnect(addr)
    \/ BridgeHandshake
    \/ ServerHandle
    \/ \E ws \in Clients : Connect(ws, PeerAddr(ws))
    \/ \E ws \in Clients : ClientMessage(ws, Envelope("broadcast", JNone, JNone, "", JNone))
    \/ \E ws \in Conns : Close(ws)
    \/ \E ws \in Conns : Cleanup(ws)
    \/ Yield

SpecIdleBridge == InitBridge /\ [][NextIdleBridge]_vars

\* the bridge serving several tool callers at once
NextCallers ==
    \/ BridgeConnect(PeerAddr(BridgeWs))
    \/ BridgeHandshake
    \/ \E t \in BridgeTools : BridgeCall(t[1], t[2], t[3])
    \/ BridgeOverlapSend("list_clients", "", <<>>)
    \/ BridgeOverlapRecv
    \/ BridgeRecv
    \/ BridgeRecvClosed
    \/ ServerHandle
    \/ Close(BridgeWs)
    \/ Cleanup(BridgeWs)
    \/ Yield

SpecCallers == InitBridge /\ [][NextCallers]_vars

----------------------------------------------------------------------------
(* The get_client_state tool: ten queries, one after the other             *)

\* the commands _get_client_state sends, in its order
StateQueries ==
    <<"get_model_name", "get_expression", "get_motion", "get_eye_blink", "get_breath",
      "get_idle_motion", "get_drag_follow", "get_physics", "get_position", "get_scale">>

\* response.get("data"): of the messages that reach the bridge here, the
\* forwarded `message` carries a "data" field; the welcome, the request_*
\* pushes, the disconnect notice and the {"error": ...} of a failed
\* _send_command carry none
Data(m) == IF m.type = "message" THEN "value" ELSE "none"

\* get_client_state invocations considered
MaxStateCalls == 1

\* the tool is invoked: bridge.state collects the ten "data" values
GetClientState(target) ==
    /\ turn = Idle
    /\ bridge.pc = "idle" /\ bridge.calls < MaxStateCalls
    /\ bridge' = [bridge EXCEPT
                    !.calls = @ + 1, !.tool = "get_client_state", !.pc = "state",
                    !.call = [ClientTyped(StateQueries[1], JDict(<<>>), "mcp")
                                 EXCEPT !.client_id = target, !.rq = bridge.calls + 1],
                    !.state = <<>>, !.result = NoMsg, !.outcome = "none"]
    /\ UNCHANGED <<config, fanout, is_running, registry, transport, client_id, upstream,
                   inbox, turn>>

\* the collected values after one more query has returned `data`
StateAfter(data) ==
    LET st == Append(bridge.state, data)
    IN  IF Len(st) = Len(StateQueries)
        THEN [bridge EXCEPT !.state = st, !.pc = "idle", !.outcome = "STATE"]
        ELSE [bridge EXCEPT !.state = st, !.pc = "state"]

\* _send_command of the next query: the send, or the exception of a send on
\* a closed connection, which is returned as {"error": ...}
StateQuery ==
    LET env == [bridge.call EXCEPT
                  !.command = JStr(<<StateQueries[Len(bridge.state) + 1]>>)]
    IN  /\ turn = Idle
        /\ bridge.pc = "state"
        /\ IF transport[BridgeWs] = "open"
           THEN /\ upstream' = Append(upstream, env)
                /\ bridge' = [bridge EXCEPT !.call = env, !.pc = "state_sent"]
           ELSE /\ upstream' = upstream
                /\ bridge' = StateAfter("none")
        /\ UNCHANGED <<config, fanout, is_running, registry, transport, client_id, inbox, turn>>

\* _send_command: recv() returns the next message on the upstream session
StateRecv ==
    /\ turn = Idle
    /\ bridge.pc = "state_sent" /\ inbox # <<>>
    /\ inbox' = Tail(inbox)
    /\ bridge' = [StateAfter(Data(Head(inbox))) EXCEPT !.result = Head(inbox)]
    /\ UNCHANGED <<config, fanout, is_running, registry, transport, client_id, upstream, turn>>

\* _send_command: recv() raises ConnectionClosed
StateRecvClosed ==
    /\ turn = Idle
    /\ bridge.pc = "state_sent" /\ inbox = <<>> /\ transport[BridgeWs] # "open"
    /\ bridge' = [StateAfter("none") EXCEPT !.result = BridgeError]
    /\ UNCHANGED <<config, fanout, is_running, registry, transport, client_id, upstream,
                   inbox, turn>>

NextState ==
    \/ BridgeConnect(PeerAddr(BridgeWs))
    \/ BridgeHandshake
    \/ GetClientState("unknown-id")
    \/ StateQuery
    \/ StateRecv
    \/ StateRecvClosed
    \/ ServerHandle
    \/ \E ws \in BridgePeers : Connect(ws, PeerAddr(ws))
    \/ \E ws \in BridgePeers :  \* meanwhile, an envelope of no known type
          ClientMessage(ws, Envelope("message", JNone, JNone, "", JNone))
    \/ Close(BridgeWs)
    \/ Cleanup(BridgeWs)
    \/ Yield

SpecState == InitBridge /\ [][NextState]_vars

----------------------------------------------------------------------------
(* The Security Gate on its own: every policy, every path, every token     *)

PathStrings ==
    FileNames \cup {"deep.wav", "leak.wav", "viadir.wav", "back.wav", "dotdot.wav",
                    "sibling.wav", "dangling.wav", "loop.wav", "wav"}

\* WEBSOCKET_ALLOWED_DIRS, each entry resolved
AllowLists ==
    { {}, {<<"wav">>}, {<<"etc">>}, {<<"wav", "sub">>}, {<<"wav">>, <<"media">>} }

InitGate ==
    /\ require_auth \in BOOLEAN
    /\ auth_token \in Tokens
    /\ allowed_file_dirs \in AllowLists
    /\ is_running = TRUE
    /\ connected_clients = {}
    /\ client_id_map = [i \in Ids |-> NoConn]
    /\ authenticated_clients = {}
    /\ client_type_map = [i \in Ids |-> ""]
    /\ transport = [w \in Conns |-> "none"]
    /\ client_id = [w \in Conns |-> ""]
    /\ upstream = <<>>
    /\ inbox = <<>>
    /\ bridge = Bridge0
    /\ fanout = NoFanout
    /\ turn = Idle

\* security_config.is_file_allowed(file_path) is called
CheckFile(f) ==
    /\ turn = Idle
    /\ turn' = Step("is_file_allowed", NoConn, [NoEnv EXCEPT !.args = JStr(<<f>>)],
                    [NoMsg EXCEPT !.success = IF is_file_allowed(f) THEN "true"
                                              ELSE "false"],
                    <<>>, is_file_allowed_io, FALSE)
    /\ UNCHANGED <<config, fanout, is_running, registry, transport, client_id,
                   upstream, inbox, bridge>>

\* security_config.validate_auth_token(token) is called
CheckToken(token) ==
    /\ turn = Idle
    /\ turn' = Step("validate_auth_token", NoConn, [NoEnv EXCEPT !.token = token],
                    [NoMsg EXCEPT !.success = IF validate_auth_token(token) THEN "true"
                                              ELSE "false"],
                    <<>>, FALSE, FALSE)
    /\ UNCHANGED <<config, fanout, is_running, registry, transport, client_id,
                   upstream, inbox, bridge>>

NextGate ==
    \/ \E f \in PathStrings : CheckFile(f)
    \/ \E token \in Tokens : CheckToken(token)
    \/ Yield

SpecGate == InitGate /\ [][NextGate]_vars

----------------------------------------------------------------------------
(* Model Index (moc3manager.py): the settable parameters of a model        *)

\* entries of a descriptor list considered
MaxEntries == 2

\* cdi3 'Parameters': a list of entries, each with its Id
ParameterLists ==
    LET Param(id) == [Id |-> JStr(<<id>>)]
    IN  UNION { [1..n -> {Param("ParamAngleX"), Param("ParamHairFront")}] :
                n \in 0..MaxEntries + 1 }

\* physics3 'PhysicsSettings': each setting lists its 'Output' entries, each
\* with a 'Destination' of a Target and, usually, an Id
Outputs ==
    LET Output(target, id) == [Destination |-> [Target |-> target, Id |-> id]]
    IN  { Output("Parameter", JStr(<<"ParamHairFront">>)), Output("Parameter", JNone),
          Output("Part", JStr(<<"ParamAngleX">>)) }
PhysicsLists ==
    LET Settings == UNION { [1..n -> Outputs] : n \in 0..MaxEntries }
    IN  UNION { [1..n -> [Output : Settings]] : n \in 0..MaxEntries }

\* the 'Output' entries of all settings, in document order
RECURSIVE AllOutputs(_)
AllOutputs(settings) ==
    IF settings = <<>> THEN <<>>
    ELSE Head(settings).Output \o AllOutputs(Tail(settings))

\* every destination id is collected, whatever its Target
IsParameterOutput_anytarget(output) == TRUE

\* destination.get('Target') == 'Parameter'
IsParameterOutput(output) == output.Destination.Target = "Parameter"

\* get_physics_output_ids, over the outputs still to scan
RECURSIVE CollectOutputIds(_, _)
CollectOutputIds(outputs, output_ids) ==
    IF outputs = <<>> THEN output_ids
    ELSE LET param_id == Head(outputs).Destination.Id
             collected == \E i \in 1..Len(output_ids) : output_ids[i] = param_id
         IN  CollectOutputIds(Tail(outputs),
                IF IsParameterOutput(Head(outputs)) /\ Truthy(param_id) /\ ~collected
                THEN Append(output_ids, param_id) ELSE output_ids)

\* the descriptors are held per model name; an unknown name has none
get_parameters(model_name, parameters) ==
    IF model_name \in Models THEN parameters ELSE <<>>
get_physics_output_ids(model_name, physics) ==
    IF model_name \in Models THEN CollectOutputIds(AllOutputs(physics), <<>>) ELSE <<>>

RECURSIVE Filter(_, _)
Filter(all_parameters, physics_output_ids) ==
    IF all_parameters = <<>> THEN <<>>
    ELSE LET param == Head(all_parameters)
             rest == Filter(Tail(all_parameters), physics_output_ids)
         IN  IF \E i \in 1..Len(physics_output_ids) : physics_output_ids[i] = param.Id
             THEN rest ELSE <<param>> \o rest

get_parameters_exclude_physics(model_name, parameters, physics) ==
    Filter(get_parameters(model_name, parameters),
           get_physics_output_ids(model_name, physics))

\* a query for the settable parameters of a model whose descriptors are
\* `parameters` and `physics`
QueryParameters(model_name, parameters, physics) ==
    /\ turn = Idle
    /\ turn' = Step("get_parameters_exclude_physics", NoConn,
                    [NoEnv EXCEPT !.command = JStr(<<model_name>>),
                                  !.args = [k |-> "descriptors", v |-> <<parameters, physics>>]],
                    [NoMsg EXCEPT !.payload =
                        get_parameters_exclude_physics(model_name, parameters, physics)],
                    <<>>, FALSE, FALSE)
    /\ UNCHANGED <<config, fanout, is_running, registry, transport, client_id,
                   upstream, inbox, bridge>>

NextIndex ==
    \/ \E model_name \in Models \cup {"Nobody"}, parameters \in ParameterLists,
          physics \in PhysicsLists : QueryParameters(model_name, parameters, physics)
    \/ Yield

SpecIndex == InitBridge /\ [][NextIndex]_vars

----------------------------------------------------------------------------
(* set_parameter in its string form                                        *)

\* characters of a token considered
MaxWord == 5

\* every token of up to MaxWord characters, and the tokens of a longer
\* string: X=30, Y=-10.5 and Foo
ParameterEnvelopes ==
    LET ParamWords == UNION { [1..n -> {"A", "=", "1", ".", "-"}] : n \in 1..MaxWord }
        ParamSamples == { <<"X", "=", "3", "0">>, <<"Y", "=", "-", "1", "0", ".", "5">>,
                          <<"F", "o", "o">> }
    IN  { ClientTyped("set_parameter", JStr(<<w>>), "") : w \in ParamWords }
        \cup { ClientTyped("set_parameter", JStr(ws), "") :
                 ws \in UNION { [1..n -> ParamSamples] : n \in 2..3 } }

NextParams ==
    \/ \E ws \in BridgePeers : Connect(ws, PeerAddr(ws))
    \/ \E ws \in BridgePeers, env \in ParameterEnvelopes : ClientMessage(ws, env)
    \/ Yield

SpecParams == InitBridge /\ [][NextParams]_vars

----------------------------------------------------------------------------
(* broadcast_message with a send that suspends: the other tasks run while  *)
(* the `for client in self.connected_clients` pass waits on its await      *)

\* the handler of session ws, handling a `broadcast` envelope, enters
\* broadcast_message: the set iterator notes the size of connected_clients,
\* yields a first connection, and the send to it suspends
BroadcastStart(ws) ==
    /\ turn = Idle
    /\ fanout.pc = "none"
    /\ transport[ws] = "open" /\ ws \in connected_clients
    /\ \E first \in connected_clients :
          fanout' = [pc |-> "broadcast", ws |-> ws, size |-> Cardinality(connected_clients),
                     at |-> first, seen |-> {first}, failed |-> {},
                     stayed |-> connected_clients, out |-> <<>>]
    /\ UNCHANGED <<config, is_running, registry, transport, client_id, upstream, inbox,
                   bridge, turn>>

\* the suspended send returns or raises ConnectionClosed, and the `for`
\* statement asks the iterator for the next connection: a set whose size
\* differs from the size noted raises RuntimeError, which broadcast_message
\* does not catch, so it ends the handler through `except Exception` and the
\* finally block; otherwise the pass goes on to a connection not yet
\* yielded, or ends and prunes the failed recipients
BroadcastResume ==
    LET ws == fanout.ws
        env == Envelope("broadcast", JNone, JNone, "", JNone)
        m == [Msg("broadcast_message", "") EXCEPT !.from = client_id[ws]]
        out == Append(fanout.out, [to |-> fanout.at, msg |-> m, ok |-> SendOk(fanout.at)])
        failed == IF SendOk(fanout.at) THEN fanout.failed ELSE fanout.failed \cup {fanout.at}
        rest == connected_clients \ fanout.seen
        Ended(c, sends, raised) ==
            /\ Commit(c, sends)
            /\ turn' = Step("handle", ws, env, NoMsg, sends, FALSE, raised)
            /\ fanout' = NoFanout
    IN  /\ turn = Idle
        /\ fanout.pc = "broadcast"
        /\ IF Cardinality(connected_clients) # fanout.size
           THEN /\ Ended(Finally(Ctx0, ws), out \o Finally(Ctx0, ws).out, TRUE)
                /\ transport' = [transport EXCEPT ![ws] = "none"]
                /\ client_id' = [client_id EXCEPT ![ws] = ""]
           ELSE IF rest # {}
           THEN /\ \E next \in rest :
                     fanout' = [fanout EXCEPT !.at = next, !.seen = @ \cup {next},
                                              !.failed = failed, !.out = out,
                                              !.stayed = @ \cap connected_clients]
                /\ UNCHANGED <<registry, transport, client_id, inbox, turn>>
           ELSE /\ Ended([Ctx0 EXCEPT !.cc = @ \ failed], out, FALSE)
                /\ UNCHANGED <<transport, client_id>>
        /\ UNCHANGED <<config, is_running, upstream, bridge>>

\* the other sessions' tasks: they register, lose their connection and
\* unregister while the pass is suspended; the broadcasting session's own
\* handler is inside broadcast_message and reaches its finally block only
\* through it
NextFanout ==
    \/ \E ws \in Clients : Connect(ws, PeerAddr(ws))
    \/ \E ws \in Clients : BroadcastStart(ws)
    \/ BroadcastResume
    \/ \E ws \in Clients : Close(ws)
    \/ \E ws \in Clients : ws # fanout.ws /\ Cleanup(ws)
    \/ Yield

SpecFanout == Init /\ [][NextFanout]_vars

----------------------------------------------------------------------------
(* stop() with closes that suspend: `await websocket.close()` waits for    *)
(* the closing handshake while the sessions' handlers see their            *)
(* connections end                                                         *)

\* websocket.close() is called on the connection the iterator yielded
Closing(w) == [transport EXCEPT ![w] = IF @ = "open" THEN "closed" ELSE @]

\* stop() up to its first close: the shutdown notice is broadcast,
\* is_running is cleared, and the pass over connected_clients begins
StopStart ==
    LET b == broadcast_message(Ctx0, Msg("server_shutdown", ""), NoConn)
        cleared == [b EXCEPT !.cc = {}, !.idm = [i \in Ids |-> NoConn], !.auth = {}]
    IN  /\ turn = Idle
        /\ is_running /\ fanout.pc = "none"
        /\ is_running' = FALSE
        /\ turn' = Step("shutdown", NoConn, NoEnv, NoMsg, b.out, FALSE, FALSE)
        /\ IF b.cc = {}
           THEN /\ Commit(cleared, b.out)
                /\ UNCHANGED <<transport, fanout>>
           ELSE /\ Commit(b, b.out)
                /\ \E first \in b.cc :
                     /\ transport' = Closing(first)
                     /\ fanout' = [NoFanout EXCEPT !.pc = "closing",
                                                   !.size = Cardinality(b.cc),
                                                   !.at = first, !.seen = {first}]
        /\ UNCHANGED <<config, client_id, upstream, bridge>>

\* the suspended close returns and the `for` statement asks the iterator
\* for the next connection: a set whose size differs from the size noted
\* raises RuntimeError outside the loop's try, and stop() ends there;
\* otherwise the pass closes a connection not yet yielded, or ends and the
\* maps are cleared
StopResume ==
    LET rest == connected_clients \ fanout.seen
        cleared == [Ctx0 EXCEPT !.cc = {}, !.idm = [i \in Ids |-> NoConn], !.auth = {}]
    IN  /\ turn = Idle
        /\ fanout.pc = "closing"
        /\ IF Cardinality(connected_clients) # fanout.size
           THEN /\ turn' = Step("stop", NoConn, NoEnv, NoMsg, <<>>, FALSE, TRUE)
                /\ fanout' = NoFanout
                /\ UNCHANGED <<registry, transport, inbox>>
           ELSE IF rest # {}
           THEN /\ \E next \in rest :
                     /\ transport' = Closing(next)
                     /\ fanout' = [fanout EXCEPT !.at = next, !.seen = @ \cup {next}]
                /\ UNCHANGED <<registry, inbox, turn>>
           ELSE /\ Commit(cleared, <<>>)
                /\ turn' = Step("stop", NoConn, NoEnv, NoMsg, <<>>, FALSE, FALSE)
                /\ fanout' = NoFanout
                /\ UNCHANGED transport
        /\ UNCHANGED <<config, is_running, client_id, upstream, bridge>>

NextStop ==
    \/ \E ws \in Clients : Connect(ws, PeerAddr(ws))
    \/ \E ws \in Clients : ClientMessage(ws, Envelope("auth", JNone, JNone, "", auth_token))
    \/ \E ws \in Clients : Close(ws)
    \/ \E ws \in Clients : Cleanup(ws)
    \/ StopStart
    \/ StopResume
    \/ Yield

SpecStop == Init /\ [][NextStop]_vars

----------------------------------------------------------------------------
(* Tool Bridge startup: the connect-and-handshake loop of run()            *)

\* the retry test is passed also when the counter has reached zero
RetriesLeft_atzero(timeout_counter) == ~(timeout_counter < 0)

\* `if timeout_counter <= 0: raise RuntimeError(...)`
RetriesLeft(timeout_counter) == ~(timeout_counter <= 0)

\* an attempt ends in the `except Exception` branch: websockets.connect
\* raises, or the connection is lost with an error before any welcome has
\* come; the loop raises RuntimeError when no retry is left, else it counts
\* the retry down, sleeps and starts over
BridgeAttemptFails ==
    LET Caught(attempts) ==
            bridge' = IF RetriesLeft(bridge.timeout_counter)
                      THEN [bridge EXCEPT !.pc = "start", !.attempts = attempts,
                                          !.timeout_counter = @ - 1]
                      ELSE [bridge EXCEPT !.pc = "failed", !.attempts = attempts]
    IN  /\ turn = Idle
        /\ \/ /\ bridge.pc = "start" /\ transport[BridgeWs] = "none"
              /\ Caught(bridge.attempts + 1)
              /\ UNCHANGED inbox
           \/ /\ bridge.pc = "handshake" /\ transport[BridgeWs] # "open"
              /\ \A i \in 1..Len(inbox) : inbox[i].type # "welcome"
              /\ Caught(bridge.attempts)
              /\ inbox' = <<>>
        /\ UNCHANGED <<config, fanout, is_running, registry, transport, client_id,
                       upstream, turn>>

\* the server may be down, come up, and lose the bridge's connection at
\* any point of the handshake
NextStartup ==
    \/ BridgeConnect(PeerAddr(BridgeWs))
    \/ BridgeAttemptFails
    \/ BridgeHandshake
    \/ ServerHandle
    \/ Close(BridgeWs)
    \/ Cleanup(BridgeWs)
    \/ Yield

SpecStartup == InitBridge /\ [][NextStartup]_vars

----------------------------------------------------------------------------
(* Claims                                                                  *)

\* a session is live while its transport is open and it is registered
Live(ws) == transport[ws] = "open" /\ ws \in connected_clients

\* the envelope is a directive: a `client`-typed envelope, or the command
\* text `client <id> <directive> ...`
IsDirective(env) ==
    \/ env.type = "client"
    \/ /\ env.type = "command" /\ env.command.k = "str"
       /\ Len(env.command.v) >= 3 /\ env.command.v[1] = "client"

\* the directive's name and its argument words, read off the envelope
DirectiveName(env) ==
    IF env.type = "client" THEN CmdText(env.command) ELSE env.command.v[3]
DirectiveWords(env) ==
    IF env.type = "client" THEN ArgsWords(env.args)
    ELSE SubSeq(env.command.v, 4, Len(env.command.v))

\* the session id the router dispatches the directive on: the id in the
\* command text, or the sender's own id for a `client`-typed envelope
DirectiveTarget(env, ws) ==
    IF env.type = "client" THEN client_id[ws] ELSE env.command.v[2]

\* the current turn is the handler step of directive `name`
Handled(name) ==
    /\ turn.kind = "handle" /\ IsDirective(turn.env)
    /\ DirectiveName(turn.env) = name

\* some send of the step carries a message of the given type
Pushed(out, type) == \E i \in 1..Len(out) : out[i].msg.type = type

\* C1: with authentication required, a set_lipsync_from_file directive that
\* arrives from a session outside the authenticated set, on either entry
\* path and whatever its `from` field says, reads no file, pushes nothing
\* and returns an error
C1_LipsyncNeedsSenderAuth ==
    ( /\ require_auth /\ Handled("set_lipsync_from_file") /\ ~turn.raised
      /\ client_id[turn.ws] = PeerAddr(turn.ws)
      /\ turn.ws \notin authenticated_clients )
    => /\ ~turn.io
       /\ ~Pushed(turn.out, "set_lipsync")
       /\ turn.ret.error # ""

\* C2: no two live sessions have the same session id, and every live
\* session is the value of its own id in client_id_map
C2_SessionIdsUnique ==
    /\ \A a, b \in Conns : (a # b /\ Live(a) /\ Live(b)) => client_id[a] # client_id[b]
    /\ \A a \in Conns : Live(a) => client_id_map[client_id[a]] = a

\* C3: what a bridge call on a `command` or `model` request returns is the
\* command_response the server produced for that very request
C3_ReplyAnswersOwnRequest ==
    (bridge.outcome = "REPLIED" /\ bridge.call.type \in {"command", "model"})
    => /\ bridge.result.type = "command_response"
       /\ bridge.result.re = bridge.call.rq

\* a connected session that has identified itself as the render client
RenderClient(id) ==
    /\ InMap(client_id_map, id) /\ Live(client_id_map[id])
    /\ client_type_map[id] = "ActorDoll"

\* C4: when the bridge asks for expression "happy" on a connected render
\* client, that client's session is sent the set_expression push naming
\* happy, and the bridge call returns a result with success = true
C4_SetExpressionReachesRenderClient ==
    /\ ( /\ turn.kind = "handle" /\ turn.ws = BridgeWs
         /\ turn.env.command = JStr(<<"set_expression">>)
         /\ turn.env.args = JStr(<<"happy">>)
         /\ RenderClient(turn.env.client_id) )
       => \E i \in 1..Len(turn.out) :
             /\ turn.out[i].to = client_id_map[turn.env.client_id]
             /\ turn.out[i].msg.type = "set_expression"
             /\ turn.out[i].msg.payload = <<"happy">>
    /\ ( /\ bridge.outcome = "REPLIED" /\ bridge.tool = "set_expression"
         /\ bridge.call.args = JStr(<<"happy">>)
         /\ RenderClient(bridge.call.client_id) )
       => bridge.result.success = "true"

\* C5: every bridge call that has sent its envelope eventually ends, with a
\* reply, a timeout or a closed session
C5_CallTerminates == (bridge.pc = "sent") ~> (bridge.pc = "idle")

\* C6: a session leaves the authenticated set only in the step that ends
\* that very session (its handler's finally block) or in the server's stop;
\* no message of its own or of another session removes it
C6_AuthOnlyLeavesAtCleanup ==
    [][\A ws \in Conns :
         (ws \in authenticated_clients /\ ws \notin authenticated_clients')
         => \/ turn'.kind = "stop"
            \/ turn'.ws = ws /\ transport'[ws] = "none"]_vars

\* an authenticated session has just failed an `auth` attempt and is still
\* authenticated
C6_Witness ==
    /\ turn.kind = "handle" /\ turn.env.type = "auth" /\ ~turn.raised
    /\ ~validate_auth_token(turn.env.token)
    /\ turn.ws \in authenticated_clients

\* authentication is required and no shared token is configured
NoTokenConfigured == require_auth /\ ~Truthy(auth_token)

\* C7 (as stated): with authentication required and no token configured,
\* no token validates, no session is authenticated, and every
\* set_lipsync_from_file directive is rejected with the authorization error
C7_FailClosed ==
    NoTokenConfigured =>
        /\ \A t \in Tokens : ~validate_auth_token(t)
        /\ authenticated_clients = {}
        /\ Handled("set_lipsync_from_file") => turn.ret.error = "auth_required"

\* C7 (amended): with authentication required and no token configured, no
\* token validates, no session is authenticated, and every
\* set_lipsync_from_file directive is rejected without file access or push:
\* with the authorization error when its target is registered, with the
\* target-not-found error when it is not
C7_FailClosedRouted ==
    NoTokenConfigured =>
        /\ \A t \in Tokens : ~validate_auth_token(t)
        /\ authenticated_clients = {}
        /\ Handled("set_lipsync_from_file") =>
             /\ ~turn.raised /\ ~turn.io /\ ~Pushed(turn.out, "set_lipsync")
             /\ turn.ret.error =
                   IF InMap(client_id_map, DirectiveTarget(turn.env, turn.ws))
                   THEN "auth_required" ELSE "client_not_found"

\* with no token configured, a registered session's directive was refused
\* for lack of authorization
C7_Witness ==
    /\ NoTokenConfigured /\ Handled("set_lipsync_from_file")
    /\ turn.ret.error = "auth_required"
    /\ DirectiveWords(turn.env) = <<"in.wav">>

\* the words of a set_motion directive after group and number
PriorityWords(env) ==
    SubSeq(DirectiveWords(env), 3, Len(DirectiveWords(env)))

ValidPriorities == {<<"0">>, <<"1">>, <<"2">>, <<"3">>}

\* a set_motion directive with text arguments naming a group and a number
MotionHandled ==
    /\ Handled("set_motion") /\ ~turn.raised
    /\ turn.env.type = "client" => turn.env.args.k = "str"
    /\ Len(DirectiveWords(turn.env)) >= 2

\* C8: a set_motion directive whose priority is not an integer in 0..3 is
\* answered with an error (the priority error when its target is
\* registered) and no set_motion message is sent; a directive without a
\* priority is pushed with priority 2
C8_MotionPriorityChecked ==
    MotionHandled =>
        /\ ( PriorityWords(turn.env) # <<>> /\ PriorityWords(turn.env) \notin ValidPriorities )
           => /\ ~Pushed(turn.out, "set_motion")
              /\ turn.ret.error # ""
              /\ InMap(client_id_map, DirectiveTarget(turn.env, turn.ws))
                    => turn.ret.error \in {"priority_not_integer", "priority_out_of_range"}
        /\ PriorityWords(turn.env) = <<>>
           => /\ \A i \in 1..Len(turn.out) :
                    turn.out[i].msg.type = "set_motion" => turn.out[i].msg.priority = 2
              /\ InMap(client_id_map, DirectiveTarget(turn.env, turn.ws))
                    => Pushed(turn.out, "set_motion") /\ turn.ret.priority = 2

\* priority 4 sent to a registered session was refused as out of range
C8_Witness ==
    /\ MotionHandled /\ PriorityWords(turn.env) = <<"4">>
    /\ InMap(client_id_map, DirectiveTarget(turn.env, turn.ws))
    /\ turn.ret.error = "priority_out_of_range"

\* the command text `send <id> <message>`
IsSend(env) ==
    /\ env.type = "command" /\ env.command.k = "str"
    /\ Len(env.command.v) >= 3 /\ env.command.v[1] = "send"

ListHandled ==
    /\ turn.kind = "handle" /\ turn.env.type = "command"
    /\ turn.env.command = JStr(<<"list">>) /\ ~turn.raised

\* C10: the clients list answered to `list` never holds the caller's own
\* id, and its count is the number of ids in the list
C10_ListExcludesCaller ==
    ListHandled =>
        /\ client_id[turn.ws] \notin turn.ret.clients
        /\ turn.ret.count = Cardinality(turn.ret.clients)

\* a render client asked for the list while another render client was
\* connected
C10_Witness ==
    /\ ListHandled
    /\ client_type_map[client_id[turn.ws]] = "ActorDoll"
    /\ turn.ret.count >= 1

\* the ids that have an entry in client_id_map
RegisteredIds == {x \in Ids : InMap(client_id_map, x)}

\* no connection carries the fallback id
ProperIds == \A w \in Conns : client_id[w] # "unknown"

\* the recipients a step's sends failed on
FailedRecipients(out) == {out[i].to : i \in {j \in 1..Len(out) : ~out[j].ok}}

\* C11: the cleanup of a closed session sends client_disconnected to every
\* session still registered, and the count it reports is the size of the
\* registry right after the removal, by connection set and by id map alike
C11_DisconnectCountIsRegistrySize ==
    (turn.kind = "cleanup" /\ ProperIds) =>
        /\ \A w \in connected_clients :
              \E i \in 1..Len(turn.out) :
                 turn.out[i].to = w /\ turn.out[i].msg.type = "client_disconnected"
        /\ \A i \in 1..Len(turn.out) :
              /\ turn.out[i].msg.count =
                    Cardinality(connected_clients \cup FailedRecipients(turn.out))
              /\ turn.out[i].msg.count = Cardinality(RegisteredIds)

\* C12: the handling of a well-formed message never ends the sender's
\* session: no exception leaves the receive loop and the session stays
\* registered with its transport open
C12_NoMessageEndsSession ==
    turn.kind = "handle" =>
        /\ ~turn.raised
        /\ transport[turn.ws] = "open"
        /\ turn.ws \in connected_clients

\* C13: in a broadcast pass every registered session whose connection is
\* open receives the message, and a recipient the send failed on is
\* afterwards in neither connected_clients nor client_id_map
C13_BroadcastFailurePruned ==
    (turn.kind = "handle" /\ turn.env.type = "broadcast" /\ ~turn.raised) =>
        /\ \A w \in connected_clients :
              \E i \in 1..Len(turn.out) :
                 /\ turn.out[i].to = w /\ turn.out[i].ok
                 /\ turn.out[i].msg.type = "broadcast_message"
        /\ \A w \in FailedRecipients(turn.out) :
              /\ w \notin connected_clients
              /\ \A x \in Ids : client_id_map[x] # w

\* C14: once a role is recorded for a session, a later `thanks` directive
\* from that session leaves the recorded role as it was
C14_RoleSetOnce ==
    [][( /\ turn'.kind = "handle" /\ ~turn'.raised
         /\ turn'.env.type = "client" /\ turn'.env.command = JStr(<<"thanks">>)
         /\ client_type_map[client_id[turn'.ws]] # "" )
       => client_type_map'[client_id[turn'.ws]] = client_type_map[client_id[turn'.ws]]]_vars

\* C15: the bridge sends a tool's envelope on its upstream session only
\* after its handshake, i.e. after it has received the welcome and sent its
\* `thanks` directive
C15_NoDirectiveBeforeHandshake ==
    [][(bridge'.calls > bridge.calls /\ upstream' # upstream) => bridge.thanked]_vars

\* C16: at most one request is outstanding on the bridge's upstream
\* session: no invocation has sent its envelope while another invocation
\* is between its send and its receive
C16_OneOutstandingRequest == ~(bridge.pc = "sent" /\ bridge.second # NoEnv)

\* the envelope asks for authentication or announces a role: an `auth`
\* envelope, the command text `auth <token>`, or a `thanks` directive
IsAuthOrThanks(env) ==
    \/ env.type = "auth"
    \/ /\ env.type = "command" /\ env.command.k = "str"
       /\ Len(env.command.v) >= 1 /\ env.command.v[1] = "auth"
    \/ IsDirective(env) /\ DirectiveName(env) = "thanks"

\* C17: a handled auth envelope, `auth <token>` command or thanks directive
\* of one session leaves the authentication flag and the role of every
\* other live session as they were
C17_AuthAndRolePerSession ==
    [][\A b \in Conns :
          ( /\ turn'.kind = "handle" /\ ~turn'.raised /\ IsAuthOrThanks(turn'.env)
            /\ turn'.ws # b /\ Live(b) )
          => /\ (b \in authenticated_clients') = (b \in authenticated_clients)
             /\ client_type_map'[client_id[b]] = client_type_map[client_id[b]]]_vars

\* C18: the cleanup of a closed session takes that session out of the
\* connection set, the authenticated set and the id map, and leaves every
\* other live session registered, with its authentication flag, its id map
\* entry and its role as they were
C18_ClosureRemovesOnlyItself ==
    [][turn'.kind = "cleanup" =>
          /\ turn'.ws \notin connected_clients'
          /\ turn'.ws \notin authenticated_clients'
          /\ \A x \in Ids : client_id_map'[x] # turn'.ws
          /\ \A b \in Conns \ {turn'.ws} : Live(b) =>
                /\ b \in connected_clients'
                /\ (b \in authenticated_clients') = (b \in authenticated_clients)
                /\ client_id_map'[client_id[b]] = client_id_map[client_id[b]]
                /\ client_type_map'[client_id[b]] = client_type_map[client_id[b]]]_vars

\* C19: a received text that is not JSON is answered by exactly one `error`
\* message, sent to the sender; no exception leaves the loop, the sender
\* stays registered with its transport open, and the registry is unchanged
C19_BadJsonOneError ==
    [][(turn'.kind = "handle" /\ turn'.env = Unparsable) =>
          /\ ~turn'.raised
          /\ Len(turn'.out) = 1
          /\ turn'.out[1].to = turn'.ws /\ turn'.out[1].msg.type = "error"
          /\ registry' = registry
          /\ transport' = transport /\ client_id' = client_id
          /\ turn'.ws \in connected_clients']_vars

\* unparsable text has been handled while a second session was registered
C19_Witness ==
    /\ turn.kind = "handle" /\ turn.env = Unparsable
    /\ \E b \in connected_clients : b # turn.ws /\ transport[b] = "open"

\* C20: a completed get_client_state("unknown-id") returns no state value:
\* each of the ten collected fields is empty
C20_UnknownIdStateEmpty ==
    (bridge.tool = "get_client_state" /\ bridge.outcome = "STATE"
        /\ bridge.call.client_id = "unknown-id")
    => \A i \in 1..Len(bridge.state) : bridge.state[i] = "none"

\* C21: every id in the clients list answered to `list` has the recorded
\* role 'ActorDoll' and belongs to a session that is registered at that
\* moment: its id map entry is a connection of the connection set
C21_ListOnlyRegisteredRenderClients ==
    ListHandled =>
        \A x \in turn.ret.clients :
            /\ client_type_map[x] = "ActorDoll"
            /\ InMap(client_id_map, x)
            /\ client_id_map[x] \in connected_clients

\* the path is written without `..` and runs through no symbolic link
PlainPath(p) ==
    \A i \in 1..Len(p) : p[i] # ".." /\ ~IsSymlink(SubSeq(p, 1, i))

\* the path string and the verdict of the is_file_allowed call just made
CheckedFile == turn.env.args.v[1]
Allowed == turn.ret.success = "true"

\* C22: is_file_allowed is false for every path when the allow-list is
\* empty and false for a path that does not exist; for a path written
\* without links it is true exactly when the path exists and lies under an
\* allow-listed directory, at any depth
C22_PathAllowedUnderAllowList ==
    turn.kind = "is_file_allowed" =>
        LET p == PathOf(CheckedFile)
        IN  /\ allowed_file_dirs = {} => ~Allowed
            /\ ~FileExists(CheckedFile) => ~Allowed
            /\ PlainPath(p) =>
                  Allowed = ( /\ Exists(p)
                              /\ \E d \in allowed_file_dirs : IsUnder(d, p) )

\* a file in a nested subdirectory of an allow-listed directory was accepted
C22_Witness ==
    /\ turn.kind = "is_file_allowed" /\ Allowed
    /\ PlainPath(PathOf(CheckedFile))
    /\ \E d \in allowed_file_dirs : Len(PathOf(CheckedFile)) > Len(d) + 1

\* C23: for an existing path, is_file_allowed is true exactly when the
\* link-resolved real path lies under an allow-listed directory, wherever
\* the path as written lies
C23_ContainmentOnRealPath ==
    (turn.kind = "is_file_allowed" /\ FileExists(CheckedFile)) =>
        Allowed = \E d \in allowed_file_dirs : IsUnder(d, Resolve(PathOf(CheckedFile)))

\* a path written inside an allow-listed directory, resolving outside every
\* one of them, was rejected
C23_Witness ==
    /\ turn.kind = "is_file_allowed" /\ FileExists(CheckedFile) /\ ~Allowed
    /\ \E d \in allowed_file_dirs : IsUnder(d, PathOf(CheckedFile))
    /\ ~PlainPath(PathOf(CheckedFile))

\* C24: validate_auth_token is true for every token, None included, when
\* authentication is not required; when it is required and a shared token
\* is configured, it is true exactly for the token equal to the shared one
C24_TokenValidation ==
    turn.kind = "validate_auth_token" =>
        /\ ~require_auth => Allowed
        /\ (require_auth /\ Truthy(auth_token)) => (Allowed = (turn.env.token = auth_token))

\* with a shared token configured and required, a different token that was
\* presented has been rejected
C24_Witness ==
    /\ turn.kind = "validate_auth_token" /\ require_auth /\ Truthy(auth_token)
    /\ Truthy(turn.env.token) /\ turn.env.token # auth_token /\ ~Allowed

\* the descriptors, the model name and the result of the query just made
QueriedParameters == turn.env.args.v[1]
QueriedPhysics == turn.env.args.v[2]
\* the ids that occur as a destination with Target 'Parameter'
PhysicsDriven ==
    UNION { { QueriedPhysics[k].Output[i].Destination.Id :
                i \in { j \in 1..Len(QueriedPhysics[k].Output) :
                          QueriedPhysics[k].Output[j].Destination.Target = "Parameter" } } :
            k \in 1..Len(QueriedPhysics) }
\* the positions of the parameter list that are not physics-driven
KeptAt == {i \in 1..Len(QueriedParameters) : QueriedParameters[i].Id \notin PhysicsDriven}

\* the j-th of the kept positions, in list order
KeptNth(j) == CHOOSE i \in KeptAt : Cardinality({k \in KeptAt : k <= i}) = j

\* C25: for a known model, get_parameters_exclude_physics returns the
\* display-metadata parameter list in its order, without exactly the
\* entries whose Id is a physics output destination of Target 'Parameter';
\* for an unknown model name it returns the empty list
C25_SettableParameters ==
    turn.kind = "get_parameters_exclude_physics" =>
        IF turn.env.command.v[1] \in Models
        THEN /\ Len(turn.ret.payload) = Cardinality(KeptAt)
             /\ \A j \in 1..Len(turn.ret.payload) :
                   turn.ret.payload[j] = QueriedParameters[KeptNth(j)]
        ELSE turn.ret.payload = <<>>

\* the first parameter of a known model was physics-driven and removed,
\* later ones were kept, one of them the destination of a non-Parameter output
C25_Witness ==
    /\ turn.kind = "get_parameters_exclude_physics"
    /\ turn.env.command.v[1] \in Models
    /\ 1 \notin KeptAt /\ Len(turn.ret.payload) >= 2
    /\ \E k \in 1..Len(QueriedPhysics) : \E i \in 1..Len(QueriedPhysics[k].Output) :
          /\ QueriedPhysics[k].Output[i].Destination.Target # "Parameter"
          /\ \E j \in KeptAt : QueriedParameters[j].Id = QueriedPhysics[k].Output[i].Destination.Id

\* the current turn is the handler step of a set_parameter string
ParameterStringHandled ==
    /\ turn.kind = "handle" /\ turn.env.type = "client"
    /\ turn.env.command = JStr(<<"set_parameter">>) /\ turn.env.args.k = "str"

\* the tokens of the string that hold a '='
PairsOf(words) == {i \in 1..Len(words) : HasChar(words[i], "=")}

\* C26: a set_parameter string is never refused because of a token without
\* '='; when some token holds a '=', one push goes to the target and its map
\* has exactly the keys before the first '=' of those tokens, each with the
\* value after it: a float when that text holds a '.', an int otherwise,
\* the text itself when it is not a number.  "X=30 Y=-10.5 Foo" is pushed
\* as {X: 30, Y: -10.5}
C26_ParameterStringParsed ==
    ParameterStringHandled =>
        LET words == turn.env.args.v
            pushes == {i \in 1..Len(turn.out) : turn.out[i].msg.type = "set_parameter"}
        IN  /\ ~turn.raised
            /\ (PairsOf(words) = {}) = (pushes = {})
            /\ \A i \in pushes :
                  LET map == turn.out[i].msg.payload
                  IN  /\ pushes = {i} /\ turn.out[i].to = turn.ws
                      /\ \A k \in 1..Len(map) : \E w \in PairsOf(words) :
                            /\ map[k].key \o <<"=">> = SubSeq(words[w], 1, Len(map[k].key) + 1)
                            /\ ~HasChar(map[k].key, "=")
                      /\ \A w \in PairsOf(words) : \E k \in 1..Len(map) :
                            map[k].key \o <<"=">> = SubSeq(words[w], 1, Len(map[k].key) + 1)
                      /\ \A k, l \in 1..Len(map) : map[k].key = map[l].key => k = l
                      /\ \A k \in 1..Len(map) : \E w \in PairsOf(words) :
                            LET text == SubSeq(words[w], Len(map[k].key) + 2, Len(words[w]))
                            IN  /\ map[k].key \o <<"=">>
                                      = SubSeq(words[w], 1, Len(map[k].key) + 1)
                                /\ map[k].value.t = "float" => HasChar(text, ".")
                                /\ map[k].value.t = "int" => ~HasChar(text, ".")
                                /\ map[k].value.t = "str" => map[k].value.s = text
                      /\ words = << <<"X", "=", "3", "0">>,
                                    <<"Y", "=", "-", "1", "0", ".", "5">>, <<"F", "o", "o">> >>
                         => map = << [key |-> <<"X">>, value |-> [t |-> "int", n |-> 30]],
                                     [key |-> <<"Y">>,
                                      value |-> [t |-> "float", n |-> -105, places |-> 1]] >>
                      /\ words = << <<"A", "=", "1", "-", "1">> >>
                         => map = << [key |-> <<"A">>,
                                      value |-> [t |-> "str", s |-> <<"1", "-", "1">>]] >>
                      /\ words = << <<"A", "=", "=", "1">> >>
                         => map = << [key |-> <<"A">>,
                                      value |-> [t |-> "str", s |-> <<"=", "1">>]] >>
                      /\ words = << <<"A", "=", "-", ".", "1">> >>
                         => map = << [key |-> <<"A">>,
                                      value |-> [t |-> "float", n |-> -1, places |-> 1]] >>

\* "X=30 Y=-10.5 Foo" has been handled and pushed
C26_Witness ==
    /\ ParameterStringHandled
    /\ turn.env.args.v = << <<"X", "=", "3", "0">>,
                            <<"Y", "=", "-", "1", "0", ".", "5">>, <<"F", "o", "o">> >>
    /\ \E i \in 1..Len(turn.out) : turn.out[i].msg.type = "set_parameter" /\ turn.out[i].ok

\* C27: the handler step of a `client`-typed directive sends the router's
\* response, which names the directive's command, to the sending session
C27_ClientDirectiveAnswered ==
    (turn.kind = "handle" /\ turn.env.type = "client" /\ ~turn.raised) =>
        /\ turn.ret.command = CmdText(turn.env.command)
        /\ \E i \in 1..Len(turn.out) :
              turn.out[i].to = turn.ws /\ turn.out[i].ok /\ turn.out[i].msg = turn.ret

\* the envelope names a route the receive loop does not know, or a command
\* its route does not know
Unrecognized(env) ==
    \/ env.type \notin {"echo", "auth", "broadcast", "command", "model", "client"}
          /\ env # Unparsable
    \/ /\ env.type = "command" /\ env.command.k = "str" /\ env.command.v # <<>>
       /\ env.command.v[1] \notin {"status", "auth", "ping", "list", "notify", "send",
                                   "model", "client"}

\* C28: an envelope with an unrecognized route or command is answered to
\* its sender with a response that carries an error; nothing is sent to any
\* other session and the registry is unchanged
C28_UnrecognizedAnsweredToSender ==
    [][(turn'.kind = "handle" /\ Unrecognized(turn'.env)) =>
          /\ ~turn'.raised
          /\ \E i \in 1..Len(turn'.out) :
                turn'.out[i].to = turn'.ws /\ turn'.out[i].msg.error # ""
          /\ \A i \in 1..Len(turn'.out) : turn'.out[i].to = turn'.ws
          /\ registry' = registry]_vars

\* the current turn is the handler step of a `notify <message>` command
NotifyHandled ==
    /\ turn.kind = "handle" /\ turn.env.type = "command" /\ ~turn.raised
    /\ turn.env.command.k = "str" /\ Len(turn.env.command.v) >= 2
    /\ turn.env.command.v[1] = "notify"

\* the send of the step that delivered a message of the type to the session
Delivered(w, type) ==
    {i \in 1..Len(turn.out) :
        turn.out[i].to = w /\ turn.out[i].ok /\ turn.out[i].msg.type = type}

\* C29: on `notify <message>` every registered session, the sender
\* included, is sent the notify broadcast carrying the message, and the
\* sender is sent it before the command_response of its notify
C29_NotifyBroadcastBeforeReply ==
    NotifyHandled =>
        /\ turn.ws \in connected_clients
        /\ \A w \in connected_clients : \E i \in Delivered(w, "notify") :
              turn.out[i].msg.payload = Tail(turn.env.command.v)
        /\ \E j \in Delivered(turn.ws, "command_response") :
              /\ turn.out[j].msg.command = "notify"
              /\ \A i \in Delivered(turn.ws, "notify") : i < j

\* a notify has been handled while another session was registered
C29_Witness ==
    /\ NotifyHandled
    /\ \E w \in connected_clients : w # turn.ws /\ Delivered(w, "notify") # {}

\* the current turn is the handler step of a get_* directive whose target
\* was registered when it ran
GetHandled ==
    /\ turn.kind = "handle" /\ IsDirective(turn.env) /\ ~turn.raised
    /\ DirectiveName(turn.env) \in GetCommands
    /\ turn.ret.error = ""

\* C30: the handler step of a get_* directive with a registered target
\* makes exactly one send of the request push, to the target session, and
\* produces the acknowledgement in that same step; every other send of the
\* step is the answer to the sender
C30_GetPushesOnceAndAcknowledges ==
    GetHandled =>
        /\ turn.ret.type = "client_request"
        /\ turn.ret.command = DirectiveName(turn.env)
        /\ Cardinality({i \in 1..Len(turn.out) : turn.out[i].msg.type = "request"}) = 1
        /\ \A i \in 1..Len(turn.out) :
              IF turn.out[i].msg.type = "request"
              THEN /\ turn.out[i].msg.command = DirectiveName(turn.env)
                   /\ client_id[turn.out[i].to] = DirectiveTarget(turn.env, turn.ws)
              ELSE turn.out[i].to = turn.ws /\ turn.out[i].msg = turn.ret

\* a get_* directive named another registered session, and the push reached it
C30_Witness ==
    /\ GetHandled
    /\ \E i \in 1..Len(turn.out) :
          /\ turn.out[i].msg.type = "request" /\ turn.out[i].ok
          /\ turn.out[i].to # turn.ws

\* the set_* directives that forward one push to the target session
SetCommands ==
    ToggleCommands \cup {"set_expression", "set_motion", "set_lipsync", "set_position",
                         "set_scale", "set_parameter"}

\* C31: a set_* directive is acknowledged with success only when its push
\* was delivered to the target session
C31_SetAcknowledgementTruthful ==
    ( /\ turn.kind = "handle" /\ IsDirective(turn.env) /\ ~turn.raised
      /\ DirectiveName(turn.env) \in SetCommands
      /\ turn.ret.success = "true" )
    => \E i \in 1..Len(turn.out) :
          /\ turn.out[i].ok
          /\ turn.out[i].msg.type = DirectiveName(turn.env)
          /\ client_id[turn.out[i].to] = DirectiveTarget(turn.env, turn.ws)

\* the current turn is the bridge session's handler step for a numbered request
RequestHandled == turn.kind = "handle" /\ turn.ws = BridgeWs /\ turn.env.rq > 0

\* C32: the messages of one session are handled in arrival order, each
\* handling complete before the next begins: when the handler step of the
\* session's request n has run, every request still waiting was sent after
\* n, nothing the session has received answers a later request, and the
\* answers it has received are in request order
C32_SessionHandledInArrivalOrder ==
    /\ RequestHandled =>
          /\ \A i \in 1..Len(upstream) : upstream[i].rq > turn.env.rq
          /\ \A i \in 1..Len(inbox) : inbox[i].re <= turn.env.rq
    /\ \A i, j \in 1..Len(inbox) :
          (i < j /\ inbox[i].re > 0 /\ inbox[j].re > 0) => inbox[i].re <= inbox[j].re
    /\ \A i, j \in 1..Len(upstream) : i < j => upstream[i].rq < upstream[j].rq

\* the second of two requests that waited together has been handled, and
\* the answers to both are in the session's inbox
C32_Witness ==
    /\ RequestHandled /\ turn.env.rq = 2
    /\ \E i, j \in 1..Len(inbox) : i < j /\ inbox[i].re = 1 /\ inbox[j].re = 2

\* the envelope is a `client`-typed response_* directive
IsTelemetry(env) ==
    env.type = "client" /\ env.command.k = "str" /\ CmdText(env.command) \in ResponseCommands

\* C33: the handler step of a response_* directive from session C makes
\* exactly one send, of a command_response carrying C's id and the data, to
\* the session its `from` names when that is a registered session other
\* than C, and no send at all otherwise; none of its sends goes to C
C33_TelemetryRoutedToCaller ==
    [][(turn'.kind = "handle" /\ IsTelemetry(turn'.env) /\ ~turn'.raised) =>
          LET C == turn'.ws
              src == turn'.env.from
              out == turn'.out
          IN  IF src # "" /\ src # client_id[C] /\ InMap(client_id_map, src)
              THEN /\ Len(out) = 1
                   /\ out[1].to = client_id_map[src] /\ out[1].to # C
                   /\ out[1].msg.type = "command_response"
                   /\ out[1].msg.command = CmdText(turn'.env.command)
                   /\ out[1].msg.id = client_id[C]
                   /\ out[1].msg.payload = turn'.env.args.v
              ELSE out = <<>>]_vars

\* C34: a broadcast pass that was suspended on a send while other tasks
\* registered or unregistered sessions ends without raising, its session's
\* handler is not terminated, and every session registered throughout the
\* pass was sent the message
C34_BroadcastSurvivesRegistryChange ==
    [][(fanout.pc = "broadcast" /\ fanout'.pc = "none") =>
          /\ ~turn'.raised
          /\ transport'[fanout.ws] # "none"
          /\ \A w \in fanout.stayed \cap connected_clients :
                \E i \in 1..Len(turn'.out) :
                   turn'.out[i].to = w /\ turn'.out[i].msg.type = "broadcast_message"]_vars

\* C35: the registry maps describe one set of sessions: every connection of
\* connected_clients is the value of exactly one client_id_map entry, every
\* client_id_map value is in connected_clients, authenticated_clients is a
\* subset of connected_clients, and every key of client_type_map is a key of
\* client_id_map
C35_RegistryMapsAgree ==
    /\ \A ws \in connected_clients :
          Cardinality({i \in Ids : client_id_map[i] = ws}) = 1
    /\ \A i \in Ids : client_id_map[i] # NoConn => client_id_map[i] \in connected_clients
    /\ authenticated_clients \subseteq connected_clients
    /\ \A i \in Ids : client_type_map[i] # "" => client_id_map[i] # NoConn

\* C36: a tool call that awaits a reply never returns what a notify left
\* on the bridge's session: neither the notify broadcast delivered to the
\* bridge itself nor the command_response of the notify command; a
\* list_clients call that has returned a reply returned the response to `list`
C36_NotifyLeavesNothingBehind ==
    bridge.outcome = "REPLIED" =>
        /\ bridge.result.type # "notify"
        /\ ~(bridge.result.type = "command_response" /\ bridge.result.command = "notify")
        /\ bridge.tool = "list_clients" =>
              bridge.result.type = "command_response" /\ bridge.result.command = "list"

\* C37: the first message a newly registered session receives is the
\* welcome carrying its own id: the registering step sends it to the
\* session before any other step runs, and whatever the bridge's session
\* finds first on its socket while it waits for its welcome is that welcome
C37_WelcomeComesFirst ==
    /\ turn.kind = "connect" =>
          /\ turn.out # <<>>
          /\ turn.out[1].to = turn.ws /\ turn.out[1].ok
          /\ turn.out[1].msg.type = "welcome" /\ turn.out[1].msg.id = client_id[turn.ws]
    /\ (bridge.pc = "handshake" /\ inbox # <<>>) =>
          /\ Head(inbox).type = "welcome"
          /\ transport[BridgeWs] = "open" => Head(inbox).id = client_id[BridgeWs]

\* another session's broadcast has reached the bridge's session while its
\* welcome was still unread, and lies behind the welcome
C37_Witness ==
    /\ bridge.pc = "handshake" /\ Len(inbox) = 2
    /\ inbox[1].type = "welcome" /\ inbox[2].type = "broadcast_message"

\* the current turn is the handler step of a set_* directive that the
\* router rejected before forwarding anything
Rejected(t) ==
    /\ t.kind = "handle" /\ IsDirective(t.env) /\ ~t.raised
    /\ DirectiveName(t.env) \in SetCommands \cup {"set_lipsync_from_file"}
    /\ t.ret.error \notin {"", "send_failed"}

\* C38: a set_* directive rejected by argument validation, by the
\* authorization check or by the file allow-list leaves the connection
\* set, the id map, the authenticated set and the role map as they were and
\* sends nothing but the error reply to its sender
C38_RejectedDirectiveNoEffect ==
    [][Rejected(turn') =>
          /\ registry' = registry
          /\ \A i \in 1..Len(turn'.out) :
                turn'.out[i].to = turn'.ws /\ turn'.out[i].msg = turn'.ret]_vars

\* a set_position with a non-numeric coordinate, addressed to a live
\* session other than the sender, was rejected
C38_Witness ==
    /\ Rejected(turn) /\ turn.ret.error = "xy_not_numeric"
    /\ InMap(client_id_map, DirectiveTarget(turn.env, turn.ws))
    /\ client_id_map[DirectiveTarget(turn.env, turn.ws)] # turn.ws
    /\ Live(client_id_map[DirectiveTarget(turn.env, turn.ws)])

\* C39: stop() sends the shutdown notice to every session registered when
\* it runs, before it closes any connection, and it runs to completion also
\* while the sessions' handlers unregister: when it ends, it has not raised,
\* and the connection set, the id map and the authenticated set are empty
C39_StopRunsToCompletion ==
    [][/\ (turn'.kind = "shutdown" /\ turn.kind # "shutdown") =>
             \A w \in connected_clients :
                \E i \in 1..Len(turn'.out) :
                   turn'.out[i].to = w /\ turn'.out[i].msg.type = "server_shutdown"
       /\ (fanout.pc = "closing" /\ fanout'.pc = "none") =>
             /\ ~turn'.raised
             /\ connected_clients' = {} /\ authenticated_clients' = {}
             /\ \A i \in Ids : client_id_map'[i] = NoConn]_vars

\* C40: the startup loop makes at most timeout_counter_init + 1 connection
\* attempts; it raises after the failed attempt of that number and only
\* then, never starting another; and once an attempt has received its
\* welcome no further attempt is made
C40_StartupAttemptsBounded ==
    [][/\ bridge'.attempts <= timeout_counter_init + 1
       /\ bridge'.pc = "failed" => bridge'.attempts = timeout_counter_init + 1
       /\ bridge'.pc = "start" => bridge'.attempts <= timeout_counter_init
       /\ bridge.pc \in {"idle", "failed"} => bridge' = bridge]_vars

\* every attempt has failed and the loop has raised
C40_Witness == bridge.pc = "failed" /\ bridge.attempts = timeout_counter_init + 1

====
